---------------------------- MODULE Spec2Model ----------------------------
(***************************************************************************)
(* Selector validation and robustness engine of tbenkhelif/storms.         *)
(*                                                                         *)
(* The module holds one state machine per component, each with its own     *)
(* specification over the shared variables:                                *)
(*   SpecGen     v1 generate and v2 generate   (versions/v1_mvp.py,        *)
(*                                              versions/v2_validated.py)  *)
(*   SpecRetry   validate_xpath_with_retry     (validator.py)              *)
(*   SpecRobust  test_robustness               (versions/robustness.py)    *)
(*   SpecV3      v3_generate                   (versions/v3_enterprise.py) *)
(*   SpecFix     validate_xpath_syntax and fix_xpath (utils/*.py)          *)
(*   SpecBalance find_unmatched_chars          (utils/xpath_utils.py)      *)
(*   SpecLive    validate_xpath, test_xpath_on_html, test_xpath_on_page    *)
(*   SpecCompare compare_versions              (app.py)                    *)
(* A specification leaves the variables of the other components at their   *)
(* idle values.                                                            *)
(***************************************************************************)
EXTENDS Integers, Sequences, FiniteSets, TLC

VARIABLES
    \* ---- v1 / v2 generate ----
    version,            \* which generate is running: "v1" or "v2"
    gen_pc,             \* position in generate
    heuristic_xpaths,   \* v2: result of generate_heuristic_xpaths
    llm_xpaths,         \* v2: result of generate_llm_candidates
    gen_i,              \* v2: 1-based index of the candidate under test
    xpath,              \* v1: the generated xpath
    process_log,        \* the list process_log
    calls,              \* history of the collaborator calls made by the call
    gen_ret,            \* <<the returned record>>, <<>> before the return
    \* ---- validate_xpath_with_retry ----
    max_retries,        \* the argument max_retries
    attempt,            \* the loop variable attempt
    retry_pc,           \* position in validate_xpath_with_retry
    last_error,         \* <<the dict last_error>>, <<>> for None
    retry_trace,        \* the validate_xpath calls and the sleeps, in order
    retry_ret,          \* <<the returned dict>>, <<>> before the return
    \* ---- test_robustness ----
    rob_pc,             \* position in test_robustness
    original,           \* original_success, original_count, original_error
    rob_idx,            \* 1-based position of the loop in tester.mutations
    passed,             \* the list passed
    failed,             \* the list failed
    results,            \* the dict results
    applied,            \* the mutation functions called, in order
    tested,             \* the test_xpath_on_html calls, in order
    rob_ret,            \* <<the returned dict>>, <<>> before the return
    \* ---- v3_generate (v3_enterprise) ----
    v3_pc,              \* position in v3_generate
    v3_env,             \* V3_AVAILABLE and client, as the module was loaded
    browser,            \* "none", "open" or "closed"
    v3_log,             \* process_log, as the set of its entries
    iteration,          \* iteration of the generation loop
    tool_use_count,     \* tool_use blocks executed so far
    final_xpath,        \* final_xpath, None until one is extracted
    validation_attempts,\* validation_attempts
    validated_xpath,    \* validated_xpath, None until a query matches
    regenerations,      \* regeneration requests answered with a selector
    queries,            \* what page.query_selector_all returned, in order
    v3_ret,             \* <<the returned dict>>; <<>> before the return
                        \* and when the call returns None
    \* ---- fix_xpath ----
    fix_pc,             \* position in fix_xpath
    broken_xpath,       \* the argument broken_xpath
    instruction,        \* the argument instruction
    lxml,               \* the lxml of the environment
    working_xpath,      \* working_xpath
    fixes_applied,      \* fixes_applied
    fix_ret,            \* <<the returned dict>>, <<>> before the return
    \* ---- find_unmatched_chars ----
    bal_pc,             \* position in find_unmatched_chars
    bal_text,           \* the argument text
    bal_pairs,          \* the argument pairs
    bal_issues,         \* the returned list issues
    \* ---- validate_xpath, test_xpath_on_html, test_xpath_on_page ----
    live_pc,            \* position in the call
    live_entry,         \* which of the three functions is called
    live_xpath,         \* the argument xpath
    live_env,           \* PLAYWRIGHT_AVAILABLE and the lxml of the environment
    live_playwright,    \* async_playwright(): "idle", "running" or "stopped"
    live_browser,       \* the launched browser: "none", "open" or "closed"
    live_context,       \* the browser context: "none", "open" or "closed"
    live_exc,           \* the exception in flight: "none", "error", "cancelled"
    live_events,        \* the analyzer calls and browser launches, in order
    live_ret,           \* <<the value to return>>, <<>> while there is none
    \* ---- compare_versions ----
    cmp_pc,             \* position of the handler compare_versions
    cmp_tasks,          \* per version, the position of its task run_version
    cmp_outcome,        \* per version, how its generate call ended
    cmp_result,         \* per version, <<the response run_version returned>>
    cmp_joined,         \* the versions whose task the handler has awaited
    cmp_ret,            \* <<the CompareResponse>>, <<>> before the return
    \* ---- v3_generate (v3_simplified) ----
    adp_pc,             \* position in v3_generate
    adp_env,            \* V3_AVAILABLE and client, as the module was loaded
    adp_page,           \* the loaded page: how many elements a selector matches
    adp_browser,        \* "none", "open" or "closed"
    adp_attempt,        \* the loop variable attempt, 0 before the loop
    generated_xpath,    \* generated_xpath, None until an attempt sets it
    enrichment_data,    \* enrichment_data: None, or enriched or not
    adp_trace,          \* what each attempt generated and what its query gave
    adp_log,            \* process_log, as the set of its entries
    adp_ret             \* <<the returned dict>>, <<>> before the return

genVars == <<version, gen_pc, heuristic_xpaths, llm_xpaths, gen_i, xpath,
             process_log, calls, gen_ret>>

retryVars == <<max_retries, attempt, retry_pc, last_error, retry_trace, retry_ret>>

robVars == <<rob_pc, original, rob_idx, passed, failed, results, applied, tested,
             rob_ret>>

v3Vars == <<v3_pc, v3_env, browser, v3_log, iteration, tool_use_count, final_xpath,
            validation_attempts, validated_xpath, regenerations, queries, v3_ret>>

fixVars == <<fix_pc, broken_xpath, instruction, lxml, working_xpath, fixes_applied,
             fix_ret>>

balVars == <<bal_pc, bal_text, bal_pairs, bal_issues>>

liveVars == <<live_pc, live_entry, live_xpath, live_env, live_playwright,
              live_browser, live_context, live_exc, live_events, live_ret>>

cmpVars == <<cmp_pc, cmp_tasks, cmp_outcome, cmp_result, cmp_joined, cmp_ret>>

adpVars == <<adp_pc, adp_env, adp_page, adp_browser, adp_attempt,
             generated_xpath, enrichment_data, adp_trace, adp_log, adp_ret>>

vars == <<genVars, retryVars, robVars, v3Vars, fixVars, balVars, liveVars,
         cmpVars, adpVars>>

-----------------------------------------------------------------------------
(* Bounds of the model *)

\* longest list of heuristic candidates drawn (the code caps it at 10)
MaxHeuristic == 2
\* longest list of generated candidates drawn
MaxLlm == 2
\* largest match count a page returns
MaxMatch == 2
\* largest max_retries argument drawn (the callers pass 0 and the default 2)
MaxRetries == 2
MaxToolBlocks == 2
MaxToks == 2
\* longest text handed to find_unmatched_chars
MaxBalLen == 4

-----------------------------------------------------------------------------
(* Values shared by the components *)

\* Python's None, and the value of a variable that holds nothing yet
None == "None"
NoValue == "NoValue"

SeqsUpTo(S, n) == UNION {[1..k -> S] : k \in 0..n}

NoDuplicates(s) == \A a, b \in 1..Len(s) : a # b => s[a] # s[b]

\* candidate selector strings of the generate models
Xpaths == {"//a", "//b"}

\* exception messages of the browser collaborator
ErrorMessages == {"timeout", "closed"}

\* The dicts validate_xpath can return: a match, zero matches, an evaluation
\* error, a browser error.  The error string f"{prefix}: {str(e)}" is the
\* pair <<prefix, str(e)>>, and the error None is <<>>.
ValidateXpathResults ==
    {[valid |-> TRUE, match_count |-> n, element_info |-> "info", error |-> <<>>] :
        n \in 1..MaxMatch}
    \cup {[valid |-> FALSE, match_count |-> 0, element_info |-> None, error |-> <<>>]}
    \cup {[valid |-> FALSE, match_count |-> 0, element_info |-> None,
           error |-> <<"XPath evaluation error", m>>] : m \in ErrorMessages}
    \cup {[valid |-> FALSE, match_count |-> 0, element_info |-> None,
           error |-> <<"Browser error", m>>] : m \in ErrorMessages}

\* placeholder for the result of an await that raised
NoResult == [valid |-> FALSE, match_count |-> 0, element_info |-> None, error |-> <<>>]

-----------------------------------------------------------------------------
(* v1 generate and v2 generate *)

Log(step, n, status) == [step |-> step, n |-> n, status |-> status]

\* generate_heuristic_xpaths returns at most 10 candidates without duplicates
HeuristicLists == {s \in SeqsUpTo(Xpaths, MaxHeuristic) : NoDuplicates(s)}

\* generate_llm_candidates returns the parsed lines, [] when the call raised
LlmLists == SeqsUpTo(Xpaths, MaxLlm)

\* what the await of validate_xpath_with_retry can yield in generate
RetryOutcomes ==
    {[raises |-> FALSE, result |-> r] : r \in ValidateXpathResults}
    \cup {[raises |-> TRUE, result |-> NoResult]}

GenRecord(x, validated, match_count, element_info) ==
    << [xpath |-> x, validated |-> validated, match_count |-> match_count,
     element_info |-> element_info, process_log |-> process_log'] >>

GenIdle ==
    /\ version = "idle"
    /\ gen_pc = "idle"
    /\ heuristic_xpaths = <<>>
    /\ llm_xpaths = <<>>
    /\ gen_i = 0
    /\ xpath = NoValue
    /\ process_log = <<>>
    /\ calls = <<>>
    /\ gen_ret = <<>>

GenInit ==
    /\ version \in {"v1", "v2"}
    /\ gen_pc = "fetch"
    /\ heuristic_xpaths = <<>>
    /\ llm_xpaths = <<>>
    /\ gen_i = 0
    /\ xpath = NoValue
    /\ process_log = <<>>
    /\ calls = <<>>
    /\ gen_ret = <<>>

\* v1 46-77, v2 228-265: fetch the HTML; a failure is logged and re-raised
Fetch ==
    /\ gen_pc = "fetch"
    /\ \E ok \in BOOLEAN :
        /\ calls' = Append(calls, [call |-> "fetch", arg |-> None, raises |-> ~ok,
                                   result |-> NoResult, list |-> <<>>])
        /\ IF ok
           THEN /\ process_log' = process_log \o
                     << Log("Fetching HTML", 0, "started"),
                        Log("Fetching HTML", 0, "success"),
                        Log("Cleaning HTML", 0, "success") >>
                /\ gen_pc' = IF version = "v1" THEN "v1_generate" ELSE "heuristics"
           ELSE /\ process_log' = process_log \o
                     << Log("Fetching HTML", 0, "started"),
                        Log("Fetching HTML", 0, "failed") >>
                /\ gen_pc' = "raised"
    /\ UNCHANGED <<version, heuristic_xpaths, llm_xpaths, gen_i, xpath, gen_ret>>

\* v1 79-123: one text-generation call; a failure is logged and re-raised
V1Generate ==
    /\ gen_pc = "v1_generate"
    /\ \E out \in Xpaths \cup {"Raised"} :
        /\ calls' = Append(calls, [call |-> "messages.create", arg |-> None,
                                   raises |-> out = "Raised", result |-> NoResult,
                                   list |-> <<>>])
        /\ IF out # "Raised"
           THEN /\ xpath' = out
                /\ process_log' = process_log \o
                     << Log("Generating XPath with Claude", 0, "started"),
                        Log("Generating XPath with Claude", 0, "success") >>
                /\ gen_pc' = "v1_validate"
           ELSE /\ xpath' = xpath
                /\ process_log' = process_log \o
                     << Log("Generating XPath with Claude", 0, "started"),
                        Log("Generating XPath with Claude", 0, "failed") >>
                /\ gen_pc' = "raised"
    /\ UNCHANGED <<version, heuristic_xpaths, llm_xpaths, gen_i, gen_ret>>

\* v1 125-165: validate the xpath and return the record
V1Validate ==
    /\ gen_pc = "v1_validate"
    /\ \E out \in RetryOutcomes :
        LET validation_result ==
                IF out.raises
                THEN [valid |-> FALSE, match_count |-> 0, element_info |-> None,
                      error |-> <<"Validation unavailable">>]
                ELSE out.result
            status == IF out.raises THEN "skipped"
                      ELSE IF out.result.valid THEN "success" ELSE "failed"
        IN  /\ calls' = Append(calls, [call |-> "validate", arg |-> xpath,
                                       raises |-> out.raises, result |-> out.result,
                                       list |-> <<>>])
            /\ process_log' = process_log \o
                 << Log("Validating XPath", 0, "started"),
                    Log("Validating XPath", 0, status) >>
            /\ gen_ret' = GenRecord(xpath, validation_result.valid,
                                    validation_result.match_count,
                                    validation_result.element_info)
            /\ gen_pc' = "done"
    /\ UNCHANGED <<version, heuristic_xpaths, llm_xpaths, gen_i, xpath>>

\* v2 261-274, 313-318: derive the heuristic candidates from the instruction
V2Heuristics ==
    /\ gen_pc = "heuristics"
    /\ \E hs \in HeuristicLists :
        /\ heuristic_xpaths' = hs
        /\ IF hs # <<>>
           THEN /\ process_log' = process_log \o
                     << Log("Trying heuristic patterns", 0, "started"),
                        Log("Trying heuristic patterns", 0, "success") >>
                /\ gen_i' = 1
                /\ gen_pc' = "test_heuristic"
           ELSE /\ process_log' = process_log \o
                     << Log("Trying heuristic patterns", 0, "started"),
                        Log("Trying heuristic patterns", 0, "skipped") >>
                /\ gen_i' = 0
                /\ gen_pc' = "llm"
    /\ UNCHANGED <<version, llm_xpaths, xpath, calls, gen_ret>>

\* v2 287, 346: the candidate is accepted
IsMatch(validation_result) ==
    validation_result.valid /\ validation_result.match_count > 0

\* v2 277-312 and 336-371: one iteration of a candidate loop over list
\* `cands`, logging under `step`; after the last candidate go to `after`
TestCandidateMutNoReturn(cands, step, after) ==
    /\ \E out \in RetryOutcomes :
        LET x == cands[gen_i]
            last == gen_i = Len(cands)
        IN  /\ calls' = Append(calls, [call |-> "validate", arg |-> x,
                                       raises |-> out.raises, result |-> out.result,
                                       list |-> <<>>])
            /\ process_log' = process_log \o
                 << Log(step, gen_i, "started"),
                    Log(step, gen_i,
                        IF out.raises THEN "error"
                        ELSE IF IsMatch(out.result) THEN "success" ELSE "failed") >>
            /\ gen_ret' = gen_ret
            /\ gen_i' = IF last THEN 0 ELSE gen_i + 1
            /\ gen_pc' = IF last THEN after ELSE gen_pc

TestCandidateMutPropagate(cands, step, after) ==
    /\ \E out \in RetryOutcomes :
        LET x == cands[gen_i]
            last == gen_i = Len(cands)
        IN  /\ calls' = Append(calls, [call |-> "validate", arg |-> x,
                                       raises |-> out.raises, result |-> out.result,
                                       list |-> <<>>])
            /\ process_log' = Append(process_log, Log(step, gen_i, "started"))
            /\ IF out.raises
               THEN /\ gen_ret' = gen_ret
                    /\ gen_i' = gen_i
                    /\ gen_pc' = "raised"
               ELSE IF IsMatch(out.result)
               THEN /\ gen_ret' = GenRecord(x, TRUE, out.result.match_count,
                                            out.result.element_info)
                    /\ gen_i' = gen_i
                    /\ gen_pc' = "done"
               ELSE /\ gen_ret' = gen_ret
                    /\ gen_i' = IF last THEN 0 ELSE gen_i + 1
                    /\ gen_pc' = IF last THEN after ELSE gen_pc

TestCandidate(cands, step, after) ==
    /\ \E out \in RetryOutcomes :
        LET x == cands[gen_i]
            last == gen_i = Len(cands)
        IN  /\ calls' = Append(calls, [call |-> "validate", arg |-> x,
                                       raises |-> out.raises, result |-> out.result,
                                       list |-> <<>>])
            /\ IF out.raises
               THEN /\ process_log' = process_log \o
                         << Log(step, gen_i, "started"), Log(step, gen_i, "error") >>
                    /\ gen_ret' = gen_ret
                    /\ gen_i' = IF last THEN 0 ELSE gen_i + 1
                    /\ gen_pc' = IF last THEN after ELSE gen_pc
               ELSE IF IsMatch(out.result)
               THEN /\ process_log' = process_log \o
                         << Log(step, gen_i, "started"), Log(step, gen_i, "success") >>
                    /\ gen_ret' = GenRecord(x, TRUE, out.result.match_count,
                                            out.result.element_info)
                    /\ gen_i' = gen_i
                    /\ gen_pc' = "done"
               ELSE /\ process_log' = process_log \o
                         << Log(step, gen_i, "started"), Log(step, gen_i, "failed") >>
                    /\ gen_ret' = gen_ret
                    /\ gen_i' = IF last THEN 0 ELSE gen_i + 1
                    /\ gen_pc' = IF last THEN after ELSE gen_pc

\* v2 277-312: test the next heuristic candidate
V2TestHeuristic ==
    /\ gen_pc = "test_heuristic"
    /\ TestCandidate(heuristic_xpaths, "Testing heuristic", "llm")
    /\ UNCHANGED <<version, heuristic_xpaths, llm_xpaths, xpath>>

\* v2 320-333, 372-377: ask the text generation for candidates
V2GenerateLlm ==
    /\ gen_pc = "llm"
    /\ \E ls \in LlmLists :
        /\ calls' = Append(calls, [call |-> "generate_llm_candidates", arg |-> None,
                                   raises |-> FALSE, result |-> NoResult, list |-> ls])
        /\ llm_xpaths' = ls
        /\ IF ls # <<>>
           THEN /\ process_log' = process_log \o
                     << Log("Generating candidates with Claude", 0, "started"),
                        Log("Generating candidates with Claude", 0, "success") >>
                /\ gen_i' = 1
                /\ gen_pc' = "test_llm"
           ELSE /\ process_log' = process_log \o
                     << Log("Generating candidates with Claude", 0, "started"),
                        Log("Generating candidates with Claude", 0, "failed") >>
                /\ gen_i' = 0
                /\ gen_pc' = "fallback"
    /\ UNCHANGED <<version, heuristic_xpaths, xpath, gen_ret>>

\* v2 336-371: test the next generated candidate
V2TestLlm ==
    /\ gen_pc = "test_llm"
    /\ TestCandidate(llm_xpaths, "Testing LLM candidate", "fallback")
    /\ UNCHANGED <<version, heuristic_xpaths, llm_xpaths, xpath>>

\* v2 380: the selector returned when nothing validated
FallbackXpathMutHeuristicFirst(hs, ls) ==
    IF hs # <<>> THEN hs[1] ELSE IF ls # <<>> THEN ls[1] ELSE "//body"

FallbackXpath(hs, ls) ==
    IF ls # <<>> THEN ls[1] ELSE IF hs # <<>> THEN hs[1] ELSE "//body"

\* v2 379-394: nothing validated, return the fallback unvalidated
V2Fallback ==
    /\ gen_pc = "fallback"
    /\ process_log' = Append(process_log, Log("Fallback", 0, "warning"))
    /\ gen_ret' = GenRecord(FallbackXpath(heuristic_xpaths, llm_xpaths), FALSE, 0, None)
    /\ gen_pc' = "done"
    /\ UNCHANGED <<version, heuristic_xpaths, llm_xpaths, gen_i, xpath, calls>>

GenNext ==
    \/ Fetch
    \/ V1Generate
    \/ V1Validate
    \/ V2Heuristics
    \/ V2TestHeuristic
    \/ V2GenerateLlm
    \/ V2TestLlm
    \/ V2Fallback

-----------------------------------------------------------------------------
(* validate_xpath_with_retry *)

\* validator.py 132: "XPath evaluation error" in result.get("error", "")
IsEvaluationError(error) ==
    \E k \in 1..Len(error) : error[k] = "XPath evaluation error"

\* validator.py 132: the result is returned without a further attempt
ReturnsAtOnceMutErrorFree(result) == result.error = <<>>

ReturnsAtOnce(result) == result.error = <<>> \/ IsEvaluationError(result.error)

\* validator.py 136: the backoff is waited before the next attempt
ShouldSleepMutAlways(a, n) == TRUE

ShouldSleep(a, n) == a < n

\* validator.py 139-144: the dict returned when no attempt was made
RetryDefault ==
    [valid |-> FALSE, match_count |-> 0, element_info |-> None,
     error |-> <<"Validation failed after retries">>]

\* what one await of validate_xpath can yield
ValidateXpathOutcomes ==
    {[raises |-> FALSE, result |-> r] : r \in ValidateXpathResults}
    \cup {[raises |-> TRUE, result |-> NoResult]}

RetryIdle ==
    /\ max_retries = 0
    /\ attempt = 0
    /\ retry_pc = "idle"
    /\ last_error = <<>>
    /\ retry_trace = <<>>
    /\ retry_ret = <<>>

RetryInit ==
    /\ max_retries \in -1..MaxRetries
    /\ attempt = 0
    /\ retry_pc = "attempt"
    /\ last_error = <<>>
    /\ retry_trace = <<>>
    /\ retry_ret = <<>>

\* validator.py 129-137: one iteration of the loop up to its await of sleep
RetryAttempt ==
    /\ retry_pc = "attempt"
    /\ attempt <= max_retries
    /\ \E out \in ValidateXpathOutcomes :
        /\ retry_trace' = Append(retry_trace,
               [ev |-> "attempt", raises |-> out.raises, result |-> out.result])
        /\ IF out.raises
           THEN /\ retry_pc' = "raised"
                /\ UNCHANGED <<attempt, last_error, retry_ret>>
           ELSE IF ReturnsAtOnce(out.result)
           THEN /\ retry_ret' = <<out.result>>
                /\ retry_pc' = "returned"
                /\ UNCHANGED <<attempt, last_error>>
           ELSE /\ last_error' = <<out.result>>
                /\ retry_ret' = retry_ret
                /\ IF ShouldSleep(attempt, max_retries)
                   THEN retry_pc' = "sleep" /\ attempt' = attempt
                   ELSE retry_pc' = "attempt" /\ attempt' = attempt + 1
    /\ UNCHANGED max_retries

\* validator.py 137: await asyncio.sleep(1), then the next iteration
RetrySleep ==
    /\ retry_pc = "sleep"
    /\ retry_trace' = Append(retry_trace,
           [ev |-> "sleep", raises |-> FALSE, result |-> NoResult])
    /\ attempt' = attempt + 1
    /\ retry_pc' = "attempt"
    /\ UNCHANGED <<max_retries, last_error, retry_ret>>

\* validator.py 139-144: the range is exhausted
RetryExhausted ==
    /\ retry_pc = "attempt"
    /\ attempt > max_retries
    /\ retry_ret' = IF last_error # <<>> THEN last_error ELSE <<RetryDefault>>
    /\ retry_pc' = "returned"
    /\ UNCHANGED <<max_retries, attempt, last_error, retry_trace>>

RetryNext ==
    \/ RetryAttempt
    \/ RetrySleep
    \/ RetryExhausted

-----------------------------------------------------------------------------
(* test_robustness *)

\* robustness.py 18-25: tester.mutations, in insertion order
Mutations == <<"whitespace", "classes", "siblings", "wrappers", "ids", "attributes">>

Range(seq) == {seq[k] : k \in 1..Len(seq)}

\* robustness.py 169-190: what one await of test_xpath_on_html can yield:
\* (True, match_count, None), (False, 0, str(e)), or an exception
TestOutcomes ==
    {[raises |-> FALSE, success |-> TRUE, count |-> n, error |-> <<>>] :
        n \in 0..MaxMatch}
    \cup {[raises |-> FALSE, success |-> FALSE, count |-> 0, error |-> <<m>>] :
        m \in ErrorMessages}
    \cup {[raises |-> TRUE, success |-> FALSE, count |-> 0, error |-> <<>>]}

\* robustness.py 202: the selector failed on the unmutated HTML
BaselineFailedMutErrorOnly(success, count) == ~success

BaselineFailed(success, count) == ~success \/ count = 0

\* robustness.py 227: the mutation kind passes
MutationPassedMutSameCount(success, count, original_count) ==
    success /\ count = original_count

MutationPassed(success, count, original_count) == success /\ count > 0

\* robustness.py 251-253: the score, as the fraction num/den
RobScoreMutOverFailed(passed_tests, total_tests) ==
    [num |-> passed_tests, den |-> total_tests - passed_tests]

\* the score as a percentage
RobScoreMutPercent(passed_tests, total_tests) ==
    [num |-> 100 * passed_tests, den |-> total_tests]

RobScore(passed_tests, total_tests) ==
    IF total_tests > 0 THEN [num |-> passed_tests, den |-> total_tests]
    ELSE [num |-> 0, den |-> 1]

\* the analysis without the insights on the kinds that passed
AnalyzeRobustnessResultsMutNoPositive(p, f) ==
    LET np == Len(p)
        nt == Len(p) + Len(f)
        overall == IF 100 * np >= 90 * nt THEN "Highly robust"
                   ELSE IF 100 * np >= 70 * nt THEN "Moderately robust"
                   ELSE IF 100 * np >= 50 * nt THEN "Somewhat fragile"
                   ELSE "Fragile"
        rule(kind, list, text) == IF kind \in Range(list) THEN <<text>> ELSE <<>>
        insights ==
            rule("whitespace", f, "Sensitive to whitespace changes")
            \o rule("classes", f, "Relies on CSS classes")
            \o rule("siblings", f, "Uses positional selectors")
            \o rule("wrappers", f, "Sensitive to DOM structure")
            \o rule("ids", f, "Depends on ID attributes")
            \o rule("attributes", f, "Sensitive to attribute changes")
    IN  [overall |-> overall,
         insights |-> IF insights = <<>>
                      THEN <<"No specific vulnerabilities identified">>
                      ELSE insights]

\* robustness.py 271-322: _analyze_robustness_results
AnalyzeRobustnessResults(p, f) ==
    LET np == Len(p)
        nt == Len(p) + Len(f)
        overall == IF 100 * np >= 90 * nt THEN "Highly robust"
                   ELSE IF 100 * np >= 70 * nt THEN "Moderately robust"
                   ELSE IF 100 * np >= 50 * nt THEN "Somewhat fragile"
                   ELSE "Fragile"
        rule(kind, list, text) == IF kind \in Range(list) THEN <<text>> ELSE <<>>
        insights ==
            rule("whitespace", f, "Sensitive to whitespace changes")
            \o rule("classes", f, "Relies on CSS classes")
            \o rule("siblings", f, "Uses positional selectors")
            \o rule("wrappers", f, "Sensitive to DOM structure")
            \o rule("ids", f, "Depends on ID attributes")
            \o rule("attributes", f, "Sensitive to attribute changes")
            \o rule("whitespace", p, "Handles whitespace changes well")
            \o rule("siblings", p, "Robust against element reordering")
            \o rule("wrappers", p, "Survives structural DOM changes")
    IN  [overall |-> overall,
         insights |-> IF insights = <<>>
                      THEN <<"No specific vulnerabilities identified">>
                      ELSE insights]

RobIdle ==
    /\ rob_pc = "idle"
    /\ original = [raises |-> FALSE, success |-> FALSE, count |-> 0, error |-> <<>>]
    /\ rob_idx = 0
    /\ passed = <<>>
    /\ failed = <<>>
    /\ results = <<>>
    /\ applied = <<>>
    /\ tested = <<>>
    /\ rob_ret = <<>>

RobInit ==
    /\ rob_pc = "baseline"
    /\ original = [raises |-> FALSE, success |-> FALSE, count |-> 0, error |-> <<>>]
    /\ rob_idx = 0
    /\ passed = <<>>
    /\ failed = <<>>
    /\ results = <<>>
    /\ applied = <<>>
    /\ tested = <<>>
    /\ rob_ret = <<>>

\* robustness.py 197-215: the baseline test on the unmutated HTML
RobBaseline ==
    /\ rob_pc = "baseline"
    /\ \E out \in TestOutcomes :
        /\ tested' = Append(tested, [html |-> "original", out |-> out])
        /\ original' = out
        /\ IF out.raises
           THEN /\ rob_pc' = "raised"
                /\ UNCHANGED <<rob_idx, rob_ret>>
           ELSE IF BaselineFailed(out.success, out.count)
           THEN /\ rob_ret' = << [score |-> [num |-> 0, den |-> 1],
                                  passed |-> <<>>,
                                  failed |-> Mutations,
                                  details |-> [error |-> "XPath failed on original HTML",
                                               original_error |-> out.error]] >>
                /\ rob_pc' = "returned"
                /\ UNCHANGED rob_idx
           ELSE /\ rob_idx' = 1
                /\ rob_pc' = "mutate"
                /\ UNCHANGED rob_ret
    /\ UNCHANGED <<passed, failed, results, applied>>

\* robustness.py 218-248: one iteration of the loop over tester.mutations
RobMutation ==
    /\ rob_pc = "mutate"
    /\ rob_idx <= Len(Mutations)
    /\ LET mutation_name == Mutations[rob_idx]
       IN  /\ applied' = Append(applied, mutation_name)
           /\ \E mutation_raises \in BOOLEAN :
                IF mutation_raises
                THEN /\ tested' = tested
                     /\ passed' = passed
                     /\ failed' = Append(failed, mutation_name)
                     /\ results' = results @@ (mutation_name :>
                            [passed |-> FALSE, match_count |-> 0,
                             error |-> <<"Mutation failed">>,
                             original_count |-> original.count])
                ELSE \E out \in TestOutcomes :
                     /\ tested' = Append(tested, [html |-> mutation_name, out |-> out])
                     /\ IF out.raises
                        THEN /\ passed' = passed
                             /\ failed' = Append(failed, mutation_name)
                             /\ results' = results @@ (mutation_name :>
                                    [passed |-> FALSE, match_count |-> 0,
                                     error |-> <<"Mutation failed">>,
                                     original_count |-> original.count])
                        ELSE LET mutation_passed ==
                                     MutationPassed(out.success, out.count, original.count)
                             IN  /\ passed' = IF mutation_passed
                                              THEN Append(passed, mutation_name)
                                              ELSE passed
                                 /\ failed' = IF mutation_passed
                                              THEN failed
                                              ELSE Append(failed, mutation_name)
                                 /\ results' = results @@ (mutation_name :>
                                        [passed |-> mutation_passed,
                                         match_count |-> out.count,
                                         error |-> out.error,
                                         original_count |-> original.count])
    /\ rob_idx' = rob_idx + 1
    /\ UNCHANGED <<rob_pc, original, rob_ret>>

\* robustness.py 250-269: the score, the analysis and the return
RobFinish ==
    /\ rob_pc = "mutate"
    /\ rob_idx > Len(Mutations)
    /\ LET total_tests == Len(Mutations)
           passed_tests == Len(passed)
       IN  rob_ret' = << [score |-> RobScore(passed_tests, total_tests),
                          passed |-> passed,
                          failed |-> failed,
                          details |-> [total_mutations |-> total_tests,
                                       passed_mutations |-> passed_tests,
                                       original_match_count |-> original.count,
                                       mutation_results |-> results,
                                       analysis |->
                                           AnalyzeRobustnessResults(passed, failed)]] >>
    /\ rob_pc' = "returned"
    /\ UNCHANGED <<original, rob_idx, passed, failed, results, applied, tested>>

RobNext ==
    \/ RobBaseline
    \/ RobMutation
    \/ RobFinish

-----------------------------------------------------------------------------
(* v3_generate of v3_enterprise *)

\* v3_enterprise.py 390
max_iterations == 10

\* v3_enterprise.py 599
max_validation_retries == 3

\* log_step with its two arguments taken in the other order
LogStepMutSwapped(step, status) == [step |-> status, status |-> step]

\* v3_enterprise.py 327-331: log_step
LogStep(step, status) == [step |-> step, status |-> status]

\* v3_enterprise.py 606, 663: page.query_selector_all raises or returns a
\* list of elements, here its length
QueryOutcomes ==
    {[raises |-> FALSE, match_count |-> n] : n \in 0..MaxMatch}
    \cup {[raises |-> TRUE, match_count |-> 0]}

\* v3_enterprise.py 304-312 and the other returned dicts
V3Record(x, validated, match_count, element_info, log, reasons) ==
    [xpath |-> x, validated |-> validated, match_count |-> match_count,
     element_info |-> element_info, process_log |-> log,
     score_reasons |-> reasons]

\* a return statement with a dict
V3Return(rec) ==
    /\ v3_ret' = <<rec>>
    /\ v3_log' = rec.process_log
    /\ v3_pc' = "returned"

\* v3_enterprise.py 741-754: the handler of the outer try; br is the state
\* of the browser when the exception was raised
V3CriticalError(log, br) ==
    LET log2 == log \cup {LogStep("critical_error", "failed")}
        rec == V3Record("//body", FALSE, 0, "Critical error", log2,
                        "Critical error occurred")
    IN  IF br = "none"
        THEN browser' = br /\ V3Return(rec)
        ELSE \E close_raises \in BOOLEAN :
                IF close_raises
                THEN /\ browser' = br
                     /\ v3_log' = log2
                     /\ v3_ret' = <<>>
                     /\ v3_pc' = "raised"
                ELSE browser' = "closed" /\ V3Return(rec)

\* a close that is tried again when it raises
V3CloseAndReturnMutRetry(rec) ==
    \E close_raises \in BOOLEAN :
        IF close_raises
        THEN /\ browser' = "open"
             /\ v3_log' = rec.process_log
             /\ v3_ret' = <<>>
             /\ v3_pc' = v3_pc
        ELSE browser' = "closed" /\ V3Return(rec)

\* await browser.close() followed by a return, inside the outer try
V3CloseAndReturn(rec) ==
    \E close_raises \in BOOLEAN :
        IF close_raises
        THEN V3CriticalError(rec.process_log, "open")
        ELSE browser' = "closed" /\ V3Return(rec)

V3Idle ==
    /\ v3_pc = "idle"
    /\ v3_env = "ready"
    /\ browser = "none"
    /\ v3_log = {}
    /\ iteration = 0
    /\ tool_use_count = 0
    /\ final_xpath = None
    /\ validation_attempts = 0
    /\ validated_xpath = None
    /\ regenerations = 0
    /\ queries = <<>>
    /\ v3_ret = <<>>

V3Init ==
    /\ v3_pc = "start"
    /\ v3_env \in {"no_deps", "no_client", "ready"}
    /\ browser = "none"
    /\ v3_log = {}
    /\ iteration = 0
    /\ tool_use_count = 0
    /\ final_xpath = None
    /\ validation_attempts = 0
    /\ validated_xpath = None
    /\ regenerations = 0
    /\ queries = <<>>
    /\ v3_ret = <<>>

\* v3_enterprise.py 303-333: the dependency and client checks
V3Check ==
    /\ v3_pc = "start"
    /\ IF v3_env = "no_deps"
       THEN V3Return(V3Record("//body", FALSE, 0, "V3 dependencies not available",
                              {LogStep("dependency_check", "failed")},
                              "Dependencies not available"))
       ELSE IF v3_env = "no_client"
       THEN V3Return(V3Record("//body", FALSE, 0, "ANTHROPIC_API_KEY not configured",
                              {LogStep("api_key_check", "failed")},
                              "API key not configured"))
       ELSE /\ v3_log' = {LogStep("initialize", "started")}
            /\ v3_pc' = "setup"
            /\ UNCHANGED v3_ret
    /\ UNCHANGED <<v3_env, browser, iteration, tool_use_count, final_xpath,
                   validation_attempts, validated_xpath, regenerations, queries>>

\* v3_enterprise.py 335-393: browser launch and page load
V3Setup ==
    /\ v3_pc = "setup"
    /\ \E outcome \in {"launch_raises", "load_raises", "loaded"} :
        LET log1 == v3_log \cup {LogStep("browser_launch", "running")}
            log2 == log1 \cup {LogStep("page_load", "running")}
            log3 == log2 \cup {LogStep("page_load", "success"),
                               LogStep("claude_analysis", "running")}
        IN  IF outcome = "launch_raises" THEN V3CriticalError(log1, "none")
            ELSE IF outcome = "load_raises" THEN V3CriticalError(log2, "open")
            ELSE /\ browser' = "open"
                 /\ v3_log' = log3
                 /\ v3_pc' = "generate"
                 /\ UNCHANGED v3_ret
    /\ UNCHANGED <<v3_env, iteration, tool_use_count, final_xpath,
                   validation_attempts, validated_xpath, regenerations, queries>>

\* v3_enterprise.py 395-580: one iteration of the generation loop
V3Iteration ==
    /\ v3_pc = "generate"
    /\ iteration < max_iterations
    /\ iteration' = iteration + 1
    /\ LET log1 == v3_log \cup {LogStep("claude_iteration", "running")}
           continue == IF iteration + 1 < max_iterations
                       THEN "generate" ELSE "after_generate"
       IN  \/ \* the response holds tool_use blocks (tools are offered
              \* only while tool_use_count < 7)
              /\ tool_use_count < 7
              /\ \E blocks \in 1..MaxToolBlocks, tool_raises \in BOOLEAN :
                    /\ tool_use_count' = tool_use_count + blocks
                    /\ v3_log' = log1
                          \cup {LogStep("tool_execution", "running")}
                          \cup (IF tool_raises /\ blocks = 1 THEN {}
                                ELSE {LogStep("tool_execution", "success")})
                          \cup (IF tool_raises
                                THEN {LogStep("claude_iteration", "error")}
                                ELSE {})
              /\ final_xpath' = final_xpath
              /\ v3_pc' = continue
           \/ \* a text answer from which no selector is extracted
              /\ v3_log' = log1 \cup {LogStep("xpath_extraction", "failed")}
              /\ final_xpath' = None
              /\ v3_pc' = continue
              /\ UNCHANGED tool_use_count
           \/ \* a text answer with a selector
              /\ \E x \in Xpaths, reasonable \in BOOLEAN :
                    /\ final_xpath' = x
                    /\ v3_log' = log1
                          \cup (IF reasonable
                                THEN {LogStep("xpath_extracted", "success")}
                                ELSE {})
              /\ v3_pc' = "after_generate"
              /\ UNCHANGED tool_use_count
           \/ \* the iteration raises
              /\ \E api_or_auth \in BOOLEAN :
                    IF api_or_auth
                    THEN /\ v3_log' = log1
                               \cup {LogStep("claude_iteration", "error"),
                                     LogStep("claude_analysis", "failed")}
                         /\ v3_pc' = "after_generate"
                    ELSE /\ v3_log' = log1 \cup {LogStep("claude_iteration", "error")}
                         /\ v3_pc' = continue
              /\ UNCHANGED <<final_xpath, tool_use_count>>
    /\ UNCHANGED <<v3_env, browser, validation_attempts, validated_xpath,
                   regenerations, queries, v3_ret>>

\* v3_enterprise.py 582-593: no selector after the generation loop
V3NoXpath ==
    /\ v3_pc = "after_generate"
    /\ final_xpath = None
    /\ V3CloseAndReturn(
          V3Record("//body", FALSE, 0, "Failed to generate XPath",
                   v3_log \cup {LogStep("claude_analysis", "failed")},
                   "Failed to generate XPath"))
    /\ UNCHANGED <<v3_env, iteration, tool_use_count, final_xpath,
                   validation_attempts, validated_xpath, regenerations, queries>>

\* v3_enterprise.py 595-600: entry of the validation loop
V3StartValidation ==
    /\ v3_pc = "after_generate"
    /\ final_xpath # None
    /\ v3_log' = v3_log \cup {LogStep("final_validation", "running")}
    /\ validation_attempts' = 0
    /\ validated_xpath' = None
    /\ v3_pc' = "validate"
    /\ UNCHANGED <<v3_env, browser, iteration, tool_use_count, final_xpath,
                   regenerations, queries, v3_ret>>

\* v3_enterprise.py 602-658: one iteration of the validation loop
V3ValidationAttempt ==
    /\ v3_pc = "validate"
    /\ validation_attempts < max_validation_retries
    /\ validation_attempts' = validation_attempts + 1
    /\ \E q \in QueryOutcomes :
        /\ queries' = Append(queries, q)
        /\ IF q.raises
           THEN /\ v3_log' = v3_log \cup {LogStep("validation_error", "error")}
                /\ v3_pc' = "after_validate"
                /\ UNCHANGED <<final_xpath, validated_xpath, regenerations>>
           ELSE IF q.match_count > 0
           THEN /\ validated_xpath' = final_xpath
                /\ v3_pc' = "after_validate"
                /\ UNCHANGED <<v3_log, final_xpath, regenerations>>
           ELSE LET log1 == v3_log \cup {LogStep("validation_retry", "warning")}
                IN  IF validation_attempts + 1 < max_validation_retries
                    THEN \/ \* the regeneration request raises
                            /\ v3_log' = log1 \cup {LogStep("validation_error", "error")}
                            /\ v3_pc' = "after_validate"
                            /\ UNCHANGED <<final_xpath, validated_xpath, regenerations>>
                         \/ \* no selector in the answer
                            /\ v3_log' = log1 \cup {LogStep("xpath_retry", "failed")}
                            /\ v3_pc' = "after_validate"
                            /\ UNCHANGED <<final_xpath, validated_xpath, regenerations>>
                         \/ \* an alternative selector
                            /\ \E x \in Xpaths : final_xpath' = x
                            /\ v3_log' = log1 \cup {LogStep("xpath_retry", "success")}
                            /\ regenerations' = regenerations + 1
                            /\ v3_pc' = "validate"
                            /\ UNCHANGED validated_xpath
                    ELSE /\ v3_log' = log1
                         /\ v3_pc' = "after_validate"
                         /\ UNCHANGED <<final_xpath, validated_xpath, regenerations>>
    /\ UNCHANGED <<v3_env, browser, iteration, tool_use_count, v3_ret>>

\* v3_enterprise.py 661-682: the selector matched in the loop and is
\* queried once more; only a non-empty answer leads to a return statement
V3Requery ==
    /\ v3_pc = "after_validate"
    /\ validated_xpath # None
    /\ final_xpath' = validated_xpath
    /\ \E q \in QueryOutcomes :
        /\ queries' = Append(queries, q)
        /\ IF q.raises
           THEN V3CriticalError(v3_log, "open")
           ELSE IF q.match_count > 0
           THEN \E evaluate_raises \in BOOLEAN :
                  IF evaluate_raises
                  THEN V3CriticalError(v3_log, "open")
                  ELSE /\ v3_log' = v3_log
                             \cup {LogStep("final_validation", "success"),
                                   LogStep("basic_scoring", "completed"),
                                   LogStep("robustness_testing", "running")}
                       /\ v3_pc' = "robustness"
                       /\ UNCHANGED <<browser, v3_ret>>
           ELSE \* no statement follows the if: the function ends
                /\ v3_pc' = "returned"
                /\ UNCHANGED <<browser, v3_log, v3_ret>>
    /\ UNCHANGED <<v3_env, iteration, tool_use_count, validation_attempts,
                   validated_xpath, regenerations>>

\* v3_enterprise.py 684-724: robustness testing and the validated return
V3Robustness ==
    /\ v3_pc = "robustness"
    /\ \E test_raises \in BOOLEAN :
        V3CloseAndReturn(
          V3Record(final_xpath, TRUE, queries[Len(queries)].match_count, "tag",
                   v3_log \cup {LogStep("robustness_testing",
                                       IF test_raises THEN "error" ELSE "success")},
                   IF test_raises THEN "Robustness test failed" ELSE "Robustness"))
    /\ UNCHANGED <<v3_env, iteration, tool_use_count, final_xpath,
                   validation_attempts, validated_xpath, regenerations, queries>>

\* v3_enterprise.py 725-739: no query of the validation loop matched
V3ValidationFailed ==
    /\ v3_pc = "after_validate"
    /\ validated_xpath = None
    /\ V3CloseAndReturn(
          V3Record(final_xpath, FALSE, 0, "Validation failed",
                   v3_log \cup {LogStep("final_validation", "failed")},
                   "No matching elements found"))
    /\ UNCHANGED <<v3_env, iteration, tool_use_count, final_xpath,
                   validation_attempts, validated_xpath, regenerations, queries>>

V3Next ==
    \/ V3Check
    \/ V3Setup
    \/ V3Iteration
    \/ V3NoXpath
    \/ V3StartValidation
    \/ V3ValidationAttempt
    \/ V3Requery
    \/ V3Robustness
    \/ V3ValidationFailed

-----------------------------------------------------------------------------
(* Strings of the selector tools: a string is the sequence of its characters *)

Lower == {"a", "b", "c", "d", "e", "f", "g", "h", "i", "j", "k", "l", "m",
          "n", "o", "p", "q", "r", "s", "t", "u", "v", "w", "x", "y", "z"}

Upper == {"A", "B", "C", "D", "E", "F", "G", "H", "I", "J", "K", "L", "M",
          "N", "O", "P", "Q", "R", "S", "T", "U", "V", "W", "X", "Y", "Z"}

Digits == {"0", "1", "2", "3", "4", "5", "6", "7", "8", "9"}

\* the class \w of the re module
WordChars == Lower \cup Upper \cup Digits \cup {"_"}

\* the class \s of the re module, and what str.strip removes
Whitespace == {" ", "\t", "\n"}

\* the class [a-zA-Z-] of xpath_validator.py 260
FunctionNameChars == Lower \cup Upper \cup {"-"}

\* str.strip
strip(s) ==
    LET keep == {k \in 1..Len(s) : s[k] \notin Whitespace}
    IN  IF keep = {} THEN <<>>
        ELSE SubSeq(s, CHOOSE a \in keep : \A k \in keep : a <= k,
                       CHOOSE b \in keep : \A k \in keep : b >= k)

\* the literal p occurs in s at position i
MatchAt(s, i, p) ==
    /\ i >= 1
    /\ i + Len(p) - 1 <= Len(s)
    /\ \A k \in 1..Len(p) : s[i + k - 1] = p[k]

\* str.startswith, str.endswith, the operator in, str.count of one character
startswith(s, p) == MatchAt(s, 1, p)

endswith(s, p) == MatchAt(s, Len(s) - Len(p) + 1, p)

Contains(s, p) == \E i \in 1..(Len(s) + 1) : MatchAt(s, i, p)

count(s, c) == Cardinality({k \in 1..Len(s) : s[k] = c})

\* the position after the longest run of characters of class S that starts
\* at position i (a greedy S* of the re module)
Span(s, i, S) ==
    LET end[j \in 1..(Len(s) + 1)] ==
            IF j <= Len(s) /\ s[j] \in S THEN end[j + 1] ELSE j
    IN  end[i]

\* the same for the characters outside S (a greedy [^S]*)
SpanNot(s, i, S) ==
    LET end[j \in 1..(Len(s) + 1)] ==
            IF j <= Len(s) /\ s[j] \notin S THEN end[j + 1] ELSE j
    IN  end[i]

\* str.replace: every occurrence of old, from left to right
replace(s, old, new) ==
    LET from[i \in 1..(Len(s) + 1)] ==
            IF i > Len(s) THEN <<>>
            ELSE IF MatchAt(s, i, old) THEN new \o from[i + Len(old)]
            ELSE <<s[i]>> \o from[i + 1]
    IN  from[1]

\* c repeated n times
Repeat(c, n) == [k \in 1..n |-> c]

\* string literals of the source
S_contains == <<"c", "o", "n", "t", "a", "i", "n", "s">>

S_text == <<"t", "e", "x", "t">>

S_position == <<"p", "o", "s", "i", "t", "i", "o", "n">>

S_last == <<"l", "a", "s", "t">>

S_normalize_space == <<"n", "o", "r", "m", "a", "l", "i", "z", "e", "-", "s", "p", "a", "c", "e">>

S_contains_text_call == <<"c", "o", "n", "t", "a", "i", "n", "s", "(", "t", "e", "x", "t", "(", ")">>

S_contains_text_open == <<"c", "o", "n", "t", "a", "i", "n", "s", "(", "t", "e", "x", "t", "(">>

S_contains_open == <<"c", "o", "n", "t", "a", "i", "n", "s", "(">>

S_text_open == <<"t", "e", "x", "t", "(">>

S_contains_text_empty == <<"c", "o", "n", "t", "a", "i", "n", "s", "(", "t", "e", "x", "t", "(", ")", ",", " ", "\"", "\"", ")">>

S_tail_after_text_call == <<",", " ", "\"", "\"", ")">>

S_tail_after_text_open == <<"(", ")", ",", " ", "\"", "\"", ")">>

S_tail_after_contains_open == <<"t", "e", "x", "t", "(", ")", ",", " ", "\"", "\"", ")">>

S_empty_quotes == <<"\"", "\"">>

S_eq_empty_quotes == <<"=", "\"", "\"">>

S_text_call == <<"t", "e", "x", "t", "(", ")">>

S_position_call == <<"p", "o", "s", "i", "t", "i", "o", "n", "(", ")">>

S_last_call == <<"l", "a", "s", "t", "(", ")">>

S_position_open == <<"p", "o", "s", "i", "t", "i", "o", "n", "(">>

S_last_open == <<"l", "a", "s", "t", "(">>

-----------------------------------------------------------------------------
(* xpath_utils.py and xpath_validator.py *)

\* concatenation of a sequence of sequences
RECURSIVE Flatten(_)
Flatten(ss) == IF ss = <<>> THEN <<>> ELSE Head(ss) \o Flatten(Tail(ss))

\* a count that follows the nesting: balanced only when, in addition, no
\* prefix of the text closes more than it opens
count_balanced_charsMutNesting(text, open_char, close_char) ==
    [open_count |-> count(text, open_char),
     close_count |-> count(text, close_char),
     is_balanced |->
        /\ count(text, open_char) = count(text, close_char)
        /\ \A n \in 1..Len(text) :
              count(SubSeq(text, 1, n), open_char)
                >= count(SubSeq(text, 1, n), close_char)]

\* a count that pairs the occurrences of a character that opens and closes:
\* every other occurrence closes
count_balanced_charsMutPairing(text, open_char, close_char) ==
    IF open_char = close_char
    THEN [open_count |-> (count(text, open_char) + 1) \div 2,
          close_count |-> count(text, open_char) \div 2,
          is_balanced |-> count(text, open_char) % 2 = 0]
    ELSE [open_count |-> count(text, open_char),
          close_count |-> count(text, close_char),
          is_balanced |-> count(text, open_char) = count(text, close_char)]

\* xpath_utils.py 9-20
count_balanced_chars(text, open_char, close_char) ==
    [open_count |-> count(text, open_char),
     close_count |-> count(text, close_char),
     is_balanced |-> count(text, open_char) = count(text, close_char)]

\* xpath_utils.py 23-53
find_unmatched_chars(text, pairs) ==
    LET issue(pair) ==
            LET c == count_balanced_chars(text, pair[1], pair[2])
            IN  IF c.is_balanced THEN <<>>
                ELSE IF c.open_count > c.close_count
                THEN << [type |-> "missing_closing", char |-> pair[2],
                         missing_count |-> c.open_count - c.close_count] >>
                ELSE << [type |-> "missing_opening", char |-> pair[1],
                         missing_count |-> c.close_count - c.open_count] >>
    IN  Flatten([k \in 1..Len(pairs) |-> issue(pairs[k])])

\* xpath_utils.py 56-61: the matches of ([a-zA-Z_][a-zA-Z0-9_]*)\s*\(, from[i]
\* being those from position i on
extract_xpath_functions(xp) ==
    LET from[i \in 1..(Len(xp) + 1)] ==
            IF i > Len(xp) THEN <<>>
            ELSE IF xp[i] \in WordChars \ Digits
            THEN LET e == Span(xp, i, WordChars)
                     p == Span(xp, e, Whitespace)
                 IN  IF p <= Len(xp) /\ xp[p] = "("
                     THEN <<SubSeq(xp, i, e - 1)>> \o from[p + 1]
                     ELSE from[i + 1]
            ELSE from[i + 1]
    IN  from[1]

\* xpath_utils.py 72-89: the indicators, tried on the stripped text
LikelyIndicators(text) ==
    LET n == Len(text)
        attribute == \E i \in 1..(n - 1) : text[i] = "@" /\ text[i + 1] \in WordChars
        position == \E i \in 1..n :
                        /\ text[i] = "["
                        /\ LET j == Span(text, i + 1, Digits)
                           IN  j > i + 1 /\ j <= n /\ text[j] = "]"
        predicate == \E i \in 1..n :
                        /\ text[i] = "["
                        /\ LET j == SpanNot(text, i + 1, {"]"})
                           IN  j > i + 1 /\ j <= n
        element == \E i \in 1..(n - 1) : text[i] = "/" /\ text[i + 1] \in WordChars
        text_call == Contains(text, S_text)
    IN  IF ~startswith(text, <<"/">>)
        THEN [raises |-> FALSE, value |-> FALSE]
        ELSE IF attribute \/ position \/ predicate \/ element \/ text_call
        THEN [raises |-> FALSE, value |-> TRUE]
        ELSE [raises |-> TRUE, value |-> FALSE]

\* xpath_utils.py 64-89: True, False, or the re.error that re.search raises
\* for the indicator 'contains(' once no earlier indicator has matched
is_likely_xpath(text0) ==
    CHOOSE likely \in {LikelyIndicators(text) : text \in {strip(text0)}} : TRUE

\* xpath_utils.py 92-153: the score of get_xpath_complexity_score
get_xpath_complexity_score(xp) ==
    LET slash_count == count(xp, "/")
        predicate_count == count(xp, "[")
        function_count == Len(extract_xpath_functions(xp))
        depth == IF slash_count <= 3 THEN 1 ELSE IF slash_count <= 6 THEN 2 ELSE 3
        preds == IF predicate_count = 0 THEN 1
                 ELSE IF predicate_count <= 2 THEN 2 ELSE 3
        funcs == IF function_count = 0 THEN 1
                 ELSE IF function_count <= 2 THEN 2 ELSE 3
        score == depth + preds + funcs
    IN  [score |-> score,
         complexity |-> IF score <= 3 THEN "Simple"
                        ELSE IF score <= 6 THEN "Moderate" ELSE "Complex"]

\* name\s*\( matches at position i: the position after the parenthesis, else 0
OpenParenAfter(s, i, name) ==
    IF MatchAt(s, i, name)
    THEN LET p == Span(s, i + Len(name), Whitespace)
         IN  IF p <= Len(s) /\ s[p] = "(" THEN p + 1 ELSE 0
    ELSE 0

\* xpath_validator.py 251-257: re.search of the pattern of a known function
FunctionComplete(func_name, s) ==
    \E i \in 1..Len(s) :
        LET a == OpenParenAfter(s, i, func_name)
        IN  /\ a > 0
            /\ IF func_name = S_contains
               THEN LET close == SpanNot(s, a, {")"})
                        comma == SpanNot(s, a, {",", ")"})
                    IN  /\ close <= Len(s)
                        /\ comma < close
                        /\ comma > a
                        /\ close > comma + 1
               ELSE IF func_name = S_normalize_space
               THEN SpanNot(s, a, {")"}) <= Len(s)
               ELSE LET c == Span(s, a, Whitespace)
                    IN  c <= Len(s) /\ s[c] = ")"

\* xpath_validator.py 275: re.search of name\s*\([^)]*$
FunctionUnclosed(func_name, s) ==
    \E i \in 1..Len(s) :
        LET a == OpenParenAfter(s, i, func_name)
        IN  a > 0 /\ SpanNot(s, a, {")"}) = Len(s) + 1

\* xpath_validator.py 246-300: from[i] holds the issues found from position
\* i on
find_incomplete_functions(xp) ==
    LET from[i \in 1..(Len(xp) + 1)] ==
            IF i > Len(xp) THEN <<>>
            ELSE IF xp[i] \in FunctionNameChars
            THEN LET e == Span(xp, i, FunctionNameChars)
                     p == Span(xp, e, Whitespace)
                 IN  IF p <= Len(xp) /\ xp[p] = "("
                     THEN LET func_name == SubSeq(xp, i, e - 1)
                              remaining_text == SubSeq(xp, i, Len(xp))
                              ends_open ==
                                endswith(remaining_text, func_name \o <<"(">>)
                              ends_call ==
                                endswith(remaining_text, func_name \o <<"(", ")">>)
                              known ==
                                func_name \in {S_contains, S_text, S_position,
                                               S_last, S_normalize_space}
                              first ==
                                IF /\ known
                                   /\ ~FunctionComplete(func_name, remaining_text)
                                   /\ \/ ends_open
                                      \/ ends_call
                                      \/ FunctionUnclosed(func_name, remaining_text)
                                THEN << [function |-> func_name,
                                         suggestion |-> "Complete the function call"] >>
                                ELSE <<>>
                              second ==
                                IF ends_open \/ (ends_call /\ func_name # S_text)
                                THEN << [function |-> func_name,
                                         suggestion |->
                                            IF func_name = S_contains
                                            THEN "Add arguments"
                                            ELSE "Complete the function"] >>
                                ELSE <<>>
                          IN  first \o second \o from[p + 1]
                     ELSE from[e]
            ELSE from[i + 1]
    IN  from[1]

\* @\w+\s*= matches at position i: the position after the equals sign, else 0
AttrEq(s, i) ==
    IF i <= Len(s) /\ s[i] = "@"
    THEN LET w == Span(s, i + 1, WordChars)
             e == Span(s, w, Whitespace)
         IN  IF w > i + 1 /\ e <= Len(s) /\ s[e] = "=" THEN e + 1 ELSE 0
    ELSE 0

\* xpath_validator.py 303-323; unquoted[i] holds the matches of
\* @\w+\s*=[^"'\]\s] (line 310) from position i on
find_malformed_attributes(xp) ==
    LET n == Len(xp)
        no_value == {i \in 1..n :
                        LET p == AttrEq(xp, i)
                        IN  p > 0 /\ Span(xp, p, Whitespace) = n + 1}
        unquoted[i \in 1..(n + 1)] ==
            IF i > n THEN <<>>
            ELSE LET p == AttrEq(xp, i)
                 IN  IF /\ p > 0
                        /\ p <= n
                        /\ xp[p] \notin ({"\"", "'", "]"} \cup Whitespace)
                     THEN << [attribute |-> SubSeq(xp, i, p),
                              suggestion |-> "Attribute value should be quoted"] >>
                          \o unquoted[p + 1]
                     ELSE unquoted[i + 1]
        unterminated == {i \in 1..n :
                        LET p == AttrEq(xp, i)
                            q == IF p > 0 THEN Span(xp, p, Whitespace) ELSE 0
                        IN  /\ p > 0
                            /\ q <= n
                            /\ xp[q] \in {"\"", "'"}
                            /\ SpanNot(xp, q + 1, {"\"", "'"}) = n + 1}
        first(S) == CHOOSE i \in S : \A k \in S : i <= k
    IN  (IF no_value = {} THEN <<>>
         ELSE << [attribute |-> SubSeq(xp, first(no_value), n),
                  suggestion |-> "Attribute assignment without value"] >>)
        \o unquoted[1]
        \o (IF unterminated = {} THEN <<>>
            ELSE << [attribute |-> SubSeq(xp, first(unterminated), n),
                     suggestion |-> "Unterminated quoted attribute value"] >>)

\* a Python value that is a string
Str(chars) == [is_str |-> TRUE, chars |-> chars]

\* a Python value that is not a string, such as None
NotAString == [is_str |-> FALSE, chars |-> <<>>]

\* one entry of syntax_errors
SyntaxError(kind, detail, n) == [kind |-> kind, detail |-> detail, n |-> n]

\* xpath_validator.py 55-60
char_pairs == << <<"[", "]">>, <<"(", ")">>, <<"\"", "\"">>, <<"'", "'">> >>

\* xpath_validator.py 52-84: the errors found in the stripped selector
SyntaxErrors(xp) ==
    LET balance_issues == find_unmatched_chars(xp, char_pairs)
        balance_errors ==
            [k \in 1..Len(balance_issues) |->
                SyntaxError(IF balance_issues[k].type = "missing_closing"
                            THEN "Missing closing" ELSE "Extra",
                            <<balance_issues[k].char>>,
                            balance_issues[k].missing_count)]
        incomplete_functions == find_incomplete_functions(xp)
        function_errors ==
            [k \in 1..Len(incomplete_functions) |->
                SyntaxError("Incomplete function",
                            incomplete_functions[k].function, 0)]
        malformed_attrs == find_malformed_attributes(xp)
        attribute_errors ==
            [k \in 1..Len(malformed_attrs) |->
                SyntaxError("Malformed attribute", malformed_attrs[k].attribute, 0)]
    IN  balance_errors \o function_errors \o attribute_errors

\* the report with a verdict that depends on the compilation only
ValidationReportMutLenient(xp, errors, env) ==
    LET lxml_errors ==
            IF env = "rejects" /\ errors = <<>>
            THEN <<SyntaxError("XPath syntax error", <<>>, 0)>>
            ELSE <<>>
    IN  [raises |-> FALSE,
         is_valid |-> env # "rejects",
         is_likely_xpath |-> TRUE,
         syntax_errors |-> errors \o lxml_errors,
         suggestions |->
            [k \in 1..Len(errors \o lxml_errors) |-> (errors \o lxml_errors)[k].kind],
         complexity |-> <<get_xpath_complexity_score(xp)>>]

\* the report with the complexity attached to valid selectors only
ValidationReportMutValidOnly(xp, errors, env) ==
    LET lxml_errors ==
            IF env = "rejects" /\ errors = <<>>
            THEN <<SyntaxError("XPath syntax error", <<>>, 0)>>
            ELSE <<>>
    IN  [raises |-> FALSE,
         is_valid |-> errors = <<>> /\ env # "rejects",
         is_likely_xpath |-> TRUE,
         syntax_errors |-> errors \o lxml_errors,
         suggestions |->
            [k \in 1..Len(errors \o lxml_errors) |-> (errors \o lxml_errors)[k].kind],
         complexity |-> IF errors = <<>> /\ env # "rejects"
                        THEN <<get_xpath_complexity_score(xp)>>
                        ELSE <<>>]

\* xpath_validator.py 86-109: the lxml check, the verdict and the complexity
ValidationReport(xp, errors, env) ==
    LET lxml_errors ==
            IF env = "rejects" /\ errors = <<>>
            THEN <<SyntaxError("XPath syntax error", <<>>, 0)>>
            ELSE <<>>
    IN  [raises |-> FALSE,
         is_valid |-> errors = <<>> /\ env # "rejects",
         is_likely_xpath |-> TRUE,
         syntax_errors |-> errors \o lxml_errors,
         suggestions |->
            [k \in 1..Len(errors \o lxml_errors) |-> (errors \o lxml_errors)[k].kind],
         complexity |-> <<get_xpath_complexity_score(xp)>>]

\* xpath_validator.py 38-40 and 45-48: the report of an early return
EarlyReport(kind, suggestions) ==
    [raises |-> FALSE, is_valid |-> FALSE, is_likely_xpath |-> FALSE,
     syntax_errors |-> <<SyntaxError(kind, <<>>, 0)>>,
     suggestions |-> suggestions, complexity |-> <<>>]

\* xpath_validator.py 43-109: the report on the stripped selector, or the
\* exception that is_likely_xpath raises
ValidateStripped(xp, env) ==
    LET likely == is_likely_xpath(xp)
    IN  IF likely.raises
        THEN [raises |-> TRUE, is_valid |-> FALSE, is_likely_xpath |-> FALSE,
              syntax_errors |-> <<>>, suggestions |-> <<>>, complexity |-> <<>>]
        ELSE IF ~likely.value
        THEN EarlyReport("Text does not appear to be an XPath expression",
                         <<"XPath should start with / or //">>)
        ELSE CHOOSE report \in {ValidationReport(xp, errors, env) :
                                    errors \in {SyntaxErrors(xp)}} : TRUE

\* xpath_validator.py 22-109; env is "absent" when the import failed, and
\* otherwise tells what etree.XPath does with the strings handed to it
validate_xpath_syntax(xp0, env) ==
    IF xp0.chars = <<>> \/ ~xp0.is_str
    THEN EarlyReport("XPath is empty or not a string", <<>>)
    ELSE CHOOSE report \in {ValidateStripped(xp, env) :
                                xp \in {strip(xp0.chars)}} : TRUE

-----------------------------------------------------------------------------
(* xpath_fixer.py *)

\* one entry of changes_made
Change(text, n, detail) == [text |-> text, n |-> n, detail |-> detail]

\* what a fixer pass returns
PassResult(fixed, result, changes) ==
    [fixed |-> fixed, result |-> result, changes |-> changes, raises |-> FALSE]

\* the instructions handed to fix_xpath; "None" is the default
Instructions == {"None", "click on login", "scroll down"}

\* xpath_fixer.py 387-410: the term of the instruction, <<>> for None
extract_search_term_from_instruction(instr) ==
    IF instr = "click on login" THEN << <<"l", "o", "g", "i", "n">> >>
    ELSE <<>>

\* xpath_fixer.py 214-219 and 358-363: the search term fills the empty
\* contains(text(), "")
AddSearchTerm(working, instr) ==
    LET search_term == extract_search_term_from_instruction(instr)
    IN  IF /\ instr # "None"
           /\ Contains(working, S_contains_text_empty)
           /\ search_term # <<>>
        THEN PassResult(TRUE,
                replace(working, S_contains_text_empty,
                        S_contains_text_open \o <<")", ",", " ", "\"">>
                        \o search_term[1] \o <<"\"", ")">>),
                <<Change("Added search term from instruction", 0, search_term[1])>>)
        ELSE PassResult(FALSE, working, <<>>)

\* xpath_fixer.py 204: re.search(r'@\w+$')
EndsWithAttribute(s) ==
    \E i \in 1..(Len(s) - 1) :
        s[i] = "@" /\ \A k \in (i + 1)..Len(s) : s[k] \in WordChars

\* xpath_fixer.py 185-211: the truncation patterns, the first that applies
CompleteTruncation(xp) ==
    LET step(suffix, text) ==
            PassResult(TRUE, xp \o suffix, <<Change(text, 0, <<>>)>>)
    IN  IF endswith(xp, S_contains_text_call)
        THEN step(S_tail_after_text_call, "Completed truncated contains() function")
        ELSE IF endswith(xp, S_contains_text_open)
        THEN step(S_tail_after_text_open, "Completed truncated contains() function")
        ELSE IF endswith(xp, S_contains_open)
        THEN step(S_tail_after_contains_open, "Completed truncated contains() function")
        ELSE IF endswith(xp, S_text_open)
        THEN step(<<")">>, "Completed truncated text() function")
        ELSE IF EndsWithAttribute(xp)
        THEN step(S_eq_empty_quotes, "Added missing attribute value")
        ELSE IF endswith(xp, <<"=">>)
        THEN step(S_empty_quotes, "Added missing quoted attribute value")
        ELSE PassResult(FALSE, xp, <<>>)

\* xpath_fixer.py 213-222: the search term is added to what a pass has made
WithSearchTerm(f, instr) ==
    LET term == AddSearchTerm(f.result, instr)
    IN  PassResult(f.fixed \/ term.fixed, term.result, f.changes \o term.changes)

\* xpath_fixer.py 179-222
fix_truncation(xp, instr) ==
    CHOOSE f \in {WithSearchTerm(first, instr) :
                    first \in {CompleteTruncation(xp)}} : TRUE

\* the number of characters close_char at the end of s
TrailingCount(s, close_char) ==
    Len(s) - (CHOOSE j \in 0..Len(s) :
                /\ \A k \in (j + 1)..Len(s) : s[k] = close_char
                /\ j = 0 \/ s[j] # close_char)

\* xpath_fixer.py 235-249: one pair of xpath_fixer.py 233
BalancePair(acc, pair) ==
    LET balance_issues == find_unmatched_chars(acc.result, <<pair>>)
    IN  IF balance_issues = <<>> THEN acc
        ELSE LET issue == balance_issues[1]
                 close_char == pair[2]
             IN  IF issue.type = "missing_closing"
                 THEN PassResult(TRUE,
                        acc.result \o Repeat(close_char, issue.missing_count),
                        Append(acc.changes,
                               Change("Added missing", issue.missing_count,
                                      <<close_char>>)))
                 ELSE LET removed ==
                            IF issue.missing_count < TrailingCount(acc.result, close_char)
                            THEN issue.missing_count
                            ELSE TrailingCount(acc.result, close_char)
                      IN  PassResult(acc.fixed \/ removed > 0,
                            SubSeq(acc.result, 1, Len(acc.result) - removed),
                            acc.changes
                            \o Repeat(Change("Removed extra", 0, <<close_char>>),
                                      removed))

\* a balancing pass that looks at the parentheses only
fix_balance_issuesMutParenthesesOnly(xp) ==
    BalancePair(PassResult(FALSE, xp, <<>>), <<"(", ")">>)

\* xpath_fixer.py 225-253: the brackets, and then the parentheses of what the
\* brackets left
fix_balance_issues(xp) ==
    CHOOSE f \in {BalancePair(brackets, <<"(", ")">>) :
                    brackets \in {BalancePair(PassResult(FALSE, xp, <<>>),
                                              <<"[", "]">>)}} : TRUE

Quotes == {"\"", "'"}

\* xpath_fixer.py 265-278: re.sub of the mismatch pattern, from[i] being the
\* outcome from position i on
FixMismatchedQuotes(s) ==
    LET from[i \in 1..(Len(s) + 1)] ==
            IF i > Len(s) THEN <<>>
            ELSE LET p == AttrEq(s, i)
                     q == IF p > 0 THEN Span(s, p, Whitespace) ELSE 0
                     c == IF p > 0 /\ q <= Len(s) /\ s[q] \in Quotes
                          THEN SpanNot(s, q + 1, Quotes) ELSE Len(s) + 1
                 IN  IF c <= Len(s)
                     THEN SubSeq(s, i, c - 1) \o <<s[q]>> \o from[c + 1]
                     ELSE <<s[i]>> \o from[i + 1]
    IN  from[1]

\* xpath_fixer.py 286-293: re.sub of the unquoted pattern, from[i] being the
\* outcome from position i on
AddMissingQuotes(s) ==
    LET from[i \in 1..(Len(s) + 1)] ==
            IF i > Len(s) THEN <<>>
            ELSE LET p == AttrEq(s, i)
                     q == IF p > 0 THEN Span(s, p, Whitespace) ELSE 0
                     v == IF p > 0
                          THEN SpanNot(s, q, Quotes \cup Whitespace \cup {"]"}) ELSE 0
                 IN  IF p > 0 /\ v > q
                     THEN SubSeq(s, i, q - 1) \o <<"\"">> \o SubSeq(s, q, v - 1)
                          \o <<"\"">> \o from[v]
                     ELSE <<s[i]>> \o from[i + 1]
    IN  from[1]

\* a quote pass that stops after the mismatched quotes
QuoteResultMutNoQuoting(xp, mismatch) ==
    PassResult(mismatch # xp, mismatch,
               IF mismatch # xp
               THEN <<Change("Fixed mismatched quotes in attribute values", 0, <<>>)>>
               ELSE <<>>)

\* xpath_fixer.py 280-299: what the pass returns once the mismatched quotes
\* are fixed
QuoteResult(xp, mismatch) ==
    LET quoted == AddMissingQuotes(mismatch)
    IN  PassResult(mismatch # xp \/ quoted # mismatch, quoted,
            (IF mismatch # xp
             THEN <<Change("Fixed mismatched quotes in attribute values", 0, <<>>)>>
             ELSE <<>>)
            \o (IF quoted # mismatch
                THEN <<Change("Added missing quotes around attribute values", 0, <<>>)>>
                ELSE <<>>))

\* xpath_fixer.py 256-299
fix_quote_issues(xp) ==
    CHOOSE f \in {QuoteResult(xp, mismatch) :
                    mismatch \in {FixMismatchedQuotes(xp)}} : TRUE

\* xpath_fixer.py 310: where the match of (@\w+\s*=\s*)(?=[\]\s]|$) at
\* position i ends (the position after it), 0 without a match; the greedy
\* \s* gives one blank back when the lookahead fails after the blanks
IncompleteAttrEnd(s, i) ==
    LET p == AttrEq(s, i)
        q == IF p > 0 THEN Span(s, p, Whitespace) ELSE 0
    IN  IF p = 0 THEN 0
        ELSE IF q = Len(s) + 1 \/ s[q] = "]" THEN q
        ELSE IF q > p THEN q - 1
        ELSE 0

\* xpath_fixer.py 302-325; from[i] is the outcome of re.sub (line 312) from
\* position i on
fix_attribute_issues(xp) ==
    LET from[i \in 1..(Len(xp) + 1)] ==
            IF i > Len(xp) THEN <<>>
            ELSE LET e == IncompleteAttrEnd(xp, i)
                 IN  IF e > 0
                     THEN SubSeq(xp, i, e - 1) \o S_empty_quotes \o from[e]
                     ELSE <<xp[i]>> \o from[i + 1]
    IN  IF \E i \in 1..Len(xp) : IncompleteAttrEnd(xp, i) > 0
        THEN PassResult(TRUE, from[1],
                        <<Change("Added missing attribute value", 0, <<>>)>>)
        ELSE PassResult(FALSE, xp, <<>>)

\* the literals lits, each after optional blanks, and then optional blanks
\* reach from position i to the end of s
RECURSIVE LitsToEnd(_, _, _)
LitsToEnd(s, i, lits) ==
    LET q == Span(s, i, Whitespace)
    IN  IF lits = <<>> THEN q = Len(s) + 1
        ELSE MatchAt(s, q, Head(lits)) /\ LitsToEnd(s, q + Len(Head(lits)), Tail(lits))

\* the positions where head, then lits as in LitsToEnd, match up to the end
EndMatches(s, head, lits) ==
    {i \in 1..Len(s) : MatchAt(s, i, head) /\ LitsToEnd(s, i + Len(head), lits)}

\* xpath_fixer.py 340-341: contains\(\s*@\w+\s*$ and, with comma,
\* contains\(\s*@\w+\s*,\s*$ match
AttributeContainsAtEnd(s, comma) ==
    \E i \in 1..Len(s) :
        /\ MatchAt(s, i, S_contains_open)
        /\ LET q == Span(s, i + Len(S_contains_open), Whitespace)
               w == IF q <= Len(s) /\ s[q] = "@"
                    THEN Span(s, q + 1, WordChars) ELSE 0
           IN  /\ w > q + 1
               /\ LitsToEnd(s, w, IF comma THEN << <<",">> >> ELSE <<>>)

\* xpath_fixer.py 349-355: one entry of function_fixes of which the
\* replacement is a plain string
FunctionFix(acc, head, lits, replacement, description) ==
    LET m == EndMatches(acc.result, head, lits)
    IN  IF m = {} \/ acc.raises THEN acc
        ELSE LET i == CHOOSE k \in m : \A j \in m : k <= j
                 new_xpath == SubSeq(acc.result, 1, i - 1) \o replacement
             IN  IF new_xpath # acc.result
                 THEN PassResult(TRUE, new_xpath,
                                 Append(acc.changes, Change(description, 0, <<>>)))
                 ELSE acc

\* xpath_fixer.py 340-341 and 349-351: the replacement r'contains(@\w+, "")'
\* is no valid template, re.sub raises re.error as soon as the pattern matches
FunctionFixBadTemplate(acc, comma) ==
    IF ~acc.raises /\ AttributeContainsAtEnd(acc.result, comma)
    THEN [acc EXCEPT !.raises = TRUE]
    ELSE acc

\* xpath_fixer.py 335-346: the patterns, the replacements and the
\* descriptions; template tells whether re.sub accepts the replacement
function_fixes ==
    << [head |-> S_contains_open, lits |-> <<S_text_call>>, comma |-> FALSE,
        template |-> TRUE, replacement |-> S_contains_text_empty,
        description |-> "Completed contains() function"],
       [head |-> S_contains_open, lits |-> <<S_text_call, <<",">> >>, comma |-> FALSE,
        template |-> TRUE, replacement |-> S_contains_text_empty,
        description |-> "Added missing contains() argument"],
       [head |-> S_contains_open, lits |-> <<>>, comma |-> FALSE,
        template |-> FALSE, replacement |-> <<>>,
        description |-> "Completed contains() function with attribute"],
       [head |-> S_contains_open, lits |-> <<>>, comma |-> TRUE,
        template |-> FALSE, replacement |-> <<>>,
        description |-> "Added missing contains() argument"],
       [head |-> S_text_open, lits |-> <<>>, comma |-> FALSE,
        template |-> TRUE, replacement |-> S_text_call,
        description |-> "Completed text() function"],
       [head |-> S_position_open, lits |-> <<>>, comma |-> FALSE,
        template |-> TRUE, replacement |-> S_position_call,
        description |-> "Completed position() function"],
       [head |-> S_last_open, lits |-> <<>>, comma |-> FALSE,
        template |-> TRUE, replacement |-> S_last_call,
        description |-> "Completed last() function"] >>

\* xpath_fixer.py 348-355: one turn of the loop over function_fixes
ApplyFunctionFix(acc, fix) ==
    IF fix.template
    THEN FunctionFix(acc, fix.head, fix.lits, fix.replacement, fix.description)
    ELSE FunctionFixBadTemplate(acc, fix.comma)

\* xpath_fixer.py 357-367: the search term, unless re.sub has raised
FunctionResult(f, instr) == IF f.raises THEN f ELSE WithSearchTerm(f, instr)

\* xpath_fixer.py 328-367; after[k] is the outcome of the first k entries of
\* function_fixes
fix_function_issues(xp, instr) ==
    LET after[k \in 0..Len(function_fixes)] ==
            IF k = 0 THEN PassResult(FALSE, xp, <<>>)
            ELSE CHOOSE f \in {ApplyFunctionFix(acc, function_fixes[k]) :
                                acc \in {after[k - 1]}} : TRUE
    IN  CHOOSE f \in {FunctionResult(last, instr) :
                        last \in {after[Len(function_fixes)]}} : TRUE

\* str.lower
LowerOf ==
    "A" :> "a" @@ "B" :> "b" @@ "C" :> "c" @@ "D" :> "d" @@ "E" :> "e" @@ "F" :> "f" @@
    "G" :> "g" @@ "H" :> "h" @@ "I" :> "i" @@ "J" :> "j" @@ "K" :> "k" @@ "L" :> "l" @@
    "M" :> "m" @@ "N" :> "n" @@ "O" :> "o" @@ "P" :> "p" @@ "Q" :> "q" @@ "R" :> "r" @@
    "S" :> "s" @@ "T" :> "t" @@ "U" :> "u" @@ "V" :> "v" @@ "W" :> "w" @@ "X" :> "x" @@
    "Y" :> "y" @@ "Z" :> "z"

lower(s) == [k \in 1..Len(s) |-> IF s[k] \in Upper THEN LowerOf[s[k]] ELSE s[k]]

\* str(n) of a natural number
DigitSeq == <<"0", "1", "2", "3", "4", "5", "6", "7", "8", "9">>

str_int(n) ==
    LET digits[m \in 0..n] ==
            IF m < 10 THEN <<DigitSeq[m + 1]>>
            ELSE digits[m \div 10] \o <<DigitSeq[(m % 10) + 1]>>
    IN  digits[n]

\* the descriptions the fixers write as literals
DescriptionLiterals ==
    "Completed truncated contains() function" :>
        <<"C", "o", "m", "p", "l", "e", "t", "e", "d", " ", "t", "r", "u",
          "n", "c", "a", "t", "e", "d", " ", "c", "o", "n", "t", "a", "i",
          "n", "s", "(", ")", " ", "f", "u", "n", "c", "t", "i", "o", "n">> @@
    "Completed truncated text() function" :>
        <<"C", "o", "m", "p", "l", "e", "t", "e", "d", " ", "t", "r", "u",
          "n", "c", "a", "t", "e", "d", " ", "t", "e", "x", "t", "(", ")",
          " ", "f", "u", "n", "c", "t", "i", "o", "n">> @@
    "Added missing attribute value" :>
        <<"A", "d", "d", "e", "d", " ", "m", "i", "s", "s", "i", "n", "g",
          " ", "a", "t", "t", "r", "i", "b", "u", "t", "e", " ", "v", "a",
          "l", "u", "e">> @@
    "Added missing quoted attribute value" :>
        <<"A", "d", "d", "e", "d", " ", "m", "i", "s", "s", "i", "n", "g",
          " ", "q", "u", "o", "t", "e", "d", " ", "a", "t", "t", "r", "i",
          "b", "u", "t", "e", " ", "v", "a", "l", "u", "e">> @@
    "Fixed mismatched quotes in attribute values" :>
        <<"F", "i", "x", "e", "d", " ", "m", "i", "s", "m", "a", "t", "c",
          "h", "e", "d", " ", "q", "u", "o", "t", "e", "s", " ", "i", "n",
          " ", "a", "t", "t", "r", "i", "b", "u", "t", "e", " ", "v", "a",
          "l", "u", "e", "s">> @@
    "Added missing quotes around attribute values" :>
        <<"A", "d", "d", "e", "d", " ", "m", "i", "s", "s", "i", "n", "g",
          " ", "q", "u", "o", "t", "e", "s", " ", "a", "r", "o", "u", "n",
          "d", " ", "a", "t", "t", "r", "i", "b", "u", "t", "e", " ", "v",
          "a", "l", "u", "e", "s">> @@
    "Completed contains() function" :>
        <<"C", "o", "m", "p", "l", "e", "t", "e", "d", " ", "c", "o", "n",
          "t", "a", "i", "n", "s", "(", ")", " ", "f", "u", "n", "c", "t",
          "i", "o", "n">> @@
    "Added missing contains() argument" :>
        <<"A", "d", "d", "e", "d", " ", "m", "i", "s", "s", "i", "n", "g",
          " ", "c", "o", "n", "t", "a", "i", "n", "s", "(", ")", " ", "a",
          "r", "g", "u", "m", "e", "n", "t">> @@
    "Completed contains() function with attribute" :>
        <<"C", "o", "m", "p", "l", "e", "t", "e", "d", " ", "c", "o", "n",
          "t", "a", "i", "n", "s", "(", ")", " ", "f", "u", "n", "c", "t",
          "i", "o", "n", " ", "w", "i", "t", "h", " ", "a", "t", "t", "r",
          "i", "b", "u", "t", "e">> @@
    "Completed text() function" :>
        <<"C", "o", "m", "p", "l", "e", "t", "e", "d", " ", "t", "e", "x",
          "t", "(", ")", " ", "f", "u", "n", "c", "t", "i", "o", "n">> @@
    "Completed position() function" :>
        <<"C", "o", "m", "p", "l", "e", "t", "e", "d", " ", "p", "o", "s",
          "i", "t", "i", "o", "n", "(", ")", " ", "f", "u", "n", "c", "t",
          "i", "o", "n">> @@
    "Completed last() function" :>
        <<"C", "o", "m", "p", "l", "e", "t", "e", "d", " ", "l", "a", "s",
          "t", "(", ")", " ", "f", "u", "n", "c", "t", "i", "o", "n">>

\* xpath_fixer.py 219, 241, 248, 362 and the literals: the text of a change
ChangeDescription(change) ==
    IF change.text = "Added missing"
    THEN <<"A", "d", "d", "e", "d", " ">> \o str_int(change.n)
         \o <<" ", "m", "i", "s", "s", "i", "n", "g", " ", "'">> \o change.detail \o <<"'">>
    ELSE IF change.text = "Removed extra"
    THEN <<"R", "e", "m", "o", "v", "e", "d", " ", "e", "x", "t", "r", "a", " ", "'">>
         \o change.detail \o <<"'">>
    ELSE IF change.text = "Added search term from instruction"
    THEN <<"A", "d", "d", "e", "d", " ", "s", "e", "a", "r", "c", "h", " ", "t", "e", "r", "m", " ", "'">>
         \o change.detail
         \o <<"'", " ", "f", "r", "o", "m", " ", "i", "n", "s", "t", "r", "u", "c", "t", "i", "o", "n">>
    ELSE DescriptionLiterals[change.text]

\* xpath_fixer.py 421-428: change_scores in the order of the dict, in tenths
change_scores ==
    << [change_type |-> <<"m", "i", "s", "s", "i", "n", "g", " ", "c", "l", "o", "s", "i", "n", "g">>,
        score |-> 9],
       [change_type |-> <<"m", "i", "s", "s", "i", "n", "g", " ", "q", "u", "o", "t", "e", "s">>,
        score |-> 8],
       [change_type |-> <<"t", "r", "u", "n", "c", "a", "t", "e", "d">>,
        score |-> 8],
       [change_type |-> <<"u", "n", "b", "a", "l", "a", "n", "c", "e", "d">>,
        score |-> 7],
       [change_type |-> <<"m", "a", "l", "f", "o", "r", "m", "e", "d">>,
        score |-> 6],
       [change_type |-> <<"i", "n", "c", "o", "m", "p", "l", "e", "t", "e">>,
        score |-> 5] >>

\* xpath_fixer.py 434-443: the score of the first entry of change_scores
\* whose key occurs in the lowered description, 0.6 when none does
ChangeScore(change) ==
    LET text == lower(ChangeDescription(change))
        hits == {k \in 1..Len(change_scores) :
                    Contains(text, change_scores[k].change_type)}
    IN  IF hits = {} THEN 6
        ELSE change_scores[CHOOSE k \in hits : \A j \in hits : k <= j].score

RECURSIVE SumScores(_)
SumScores(changes) ==
    IF changes = <<>> THEN 0 ELSE ChangeScore(Head(changes)) + SumScores(Tail(changes))

\* the confidence without the reduction for more than 3 changes
calculate_confidenceMutNoReduction(orig, fixed, changes) ==
    IF orig = fixed THEN [num |-> 1, den |-> 1]
    ELSE IF changes = <<>> THEN [num |-> 5, den |-> 10]
    ELSE [num |-> SumScores(changes), den |-> 10 * Len(changes)]

\* xpath_fixer.py 413-455: the confidence as the fraction num/den
calculate_confidence(orig, fixed, changes) ==
    IF orig = fixed THEN [num |-> 1, den |-> 1]
    ELSE IF changes = <<>> THEN [num |-> 5, den |-> 10]
    ELSE IF Len(changes) > 3
    THEN [num |-> 8 * SumScores(changes), den |-> 100 * Len(changes)]
    ELSE [num |-> SumScores(changes), den |-> 10 * Len(changes)]

-----------------------------------------------------------------------------
(* fix_xpath *)

\* the inputs of fix_xpath: a head followed by up to MaxToks pieces
FixHeads ==
    {<<>>,
     <<"/", "/", "a", "[", "@", "i", "d", "=">>,
     <<"/", "/", "a", "[">> \o S_contains_open,
     <<"/", "/", "a", ")", "]">> \o S_contains_open \o <<"@", "i", "d">>,
     <<" ", "/", "/", "a", "]", ")", "[">> \o S_position_open,
     <<"/", "/", "a", "[", "@", "i", "d", "=", "\"", "v", "\"", "]">>,
     <<"/", "/", "a", "/", "@", "i", "d">>}

FixPieces ==
    {<<"/">>, <<"a">>, <<"]">>, <<")">>, <<"\"">>, <<"'">>, <<" ">>, S_text_open}

FixInputs ==
    {Str(h \o Flatten(t)) : h \in FixHeads, t \in SeqsUpTo(FixPieces, MaxToks)}
    \cup {NotAString}

\* xpath_validator.py 9-13: lxml is absent, or present; what etree.XPath
\* does with a string is not in the source: in one environment it accepts
\* the strings handed to it, in the other it rejects them
LxmlEnvironments == {"absent", "accepts", "rejects"}

\* xpath_fixer.py 22-29
FixResult(orig, fixed, changes, confidence, is_fixed, suggestions) ==
    [original_xpath |-> orig, fixed_xpath |-> fixed, changes_made |-> changes,
     confidence |-> confidence, is_fixed |-> is_fixed, suggestions |-> suggestions]

\* the result of a pass taken over with its changes put in front
ApplyPassMutPrepend(f, next_pc) ==
    /\ working_xpath' = IF f.fixed THEN f.result ELSE working_xpath
    /\ fixes_applied' = IF f.fixed THEN f.changes \o fixes_applied ELSE fixes_applied
    /\ fix_pc' = next_pc
    /\ UNCHANGED <<broken_xpath, instruction, lxml, fix_ret>>

\* xpath_fixer.py 42-44, 48-50, 54-56, 60-62, 66-68: the result of a pass
\* is taken over when the pass reports a fix
ApplyPass(f, next_pc) ==
    /\ working_xpath' = IF f.fixed THEN f.result ELSE working_xpath
    /\ fixes_applied' = IF f.fixed THEN fixes_applied \o f.changes ELSE fixes_applied
    /\ fix_pc' = next_pc
    /\ UNCHANGED <<broken_xpath, instruction, lxml, fix_ret>>

FixIdle ==
    /\ fix_pc = "idle"
    /\ broken_xpath = NotAString
    /\ instruction = "None"
    /\ lxml = "absent"
    /\ working_xpath = <<>>
    /\ fixes_applied = <<>>
    /\ fix_ret = <<>>

FixInit ==
    /\ fix_pc = "start"
    /\ broken_xpath \in FixInputs
    /\ instruction \in Instructions
    /\ lxml \in LxmlEnvironments
    /\ working_xpath = <<>>
    /\ fixes_applied = <<>>
    /\ fix_ret = <<>>

\* xpath_fixer.py 22-38
FixStart ==
    /\ fix_pc = "start"
    /\ IF broken_xpath.chars = <<>> \/ ~broken_xpath.is_str
       THEN /\ fix_ret' = << FixResult(broken_xpath, broken_xpath, <<>>,
                                       [num |-> 0, den |-> 1], FALSE,
                                       <<"Provide a valid XPath string">>) >>
            /\ fix_pc' = "returned"
            /\ UNCHANGED working_xpath
       ELSE /\ working_xpath' = strip(broken_xpath.chars)
            /\ fix_pc' = "truncation"
            /\ UNCHANGED fix_ret
    /\ UNCHANGED <<broken_xpath, instruction, lxml, fixes_applied>>

\* xpath_fixer.py 40-44
FixTruncation ==
    /\ fix_pc = "truncation"
    /\ \E f \in {fix_truncation(working_xpath, instruction)} : ApplyPass(f, "balance")

\* xpath_fixer.py 46-50
FixBalance ==
    /\ fix_pc = "balance"
    /\ \E f \in {fix_balance_issues(working_xpath)} : ApplyPass(f, "quotes")

\* xpath_fixer.py 52-56
FixQuotes ==
    /\ fix_pc = "quotes"
    /\ \E f \in {fix_quote_issues(working_xpath)} : ApplyPass(f, "attributes")

\* xpath_fixer.py 58-62
FixAttributes ==
    /\ fix_pc = "attributes"
    /\ \E f \in {fix_attribute_issues(working_xpath)} : ApplyPass(f, "functions")

\* xpath_fixer.py 64-68
FixFunctions ==
    /\ fix_pc = "functions"
    /\ \E f \in {fix_function_issues(working_xpath, instruction)} :
           IF f.raises
           THEN /\ fix_pc' = "raised"
                /\ UNCHANGED <<broken_xpath, instruction, lxml, working_xpath,
                               fixes_applied, fix_ret>>
           ELSE ApplyPass(f, "validate")

\* xpath_fixer.py 79: the repaired selector is validated
ValidationOfResultMutInput(broken, working, env) ==
    validate_xpath_syntax(broken, env)

ValidationOfResult(broken, working, env) ==
    validate_xpath_syntax(Str(working), env)

\* xpath_fixer.py 70-85
FixValidate ==
    /\ fix_pc = "validate"
    /\ \E validation \in {ValidationOfResult(broken_xpath, working_xpath, lxml)},
          confidence \in {calculate_confidence(broken_xpath.chars, working_xpath,
                                               fixes_applied)} :
           IF validation.raises
           THEN /\ fix_pc' = "raised"
                /\ UNCHANGED fix_ret
           ELSE /\ fix_ret' = << FixResult(broken_xpath, Str(working_xpath),
                                    fixes_applied, confidence, validation.is_valid,
                                    IF ~validation.is_valid
                                       /\ validation.syntax_errors # <<>>
                                    THEN validation.suggestions
                                    ELSE <<>>) >>
                /\ fix_pc' = "returned"
    /\ UNCHANGED <<broken_xpath, instruction, lxml, working_xpath, fixes_applied>>

FixNext ==
    \/ FixStart
    \/ FixTruncation
    \/ FixBalance
    \/ FixQuotes
    \/ FixAttributes
    \/ FixFunctions
    \/ FixValidate

-----------------------------------------------------------------------------
(* find_unmatched_chars *)

\* the characters of the texts handed to find_unmatched_chars
BalChars == {"[", "]", "(", ")"}

BalTexts == SeqsUpTo(BalChars, MaxBalLen)

\* the lists of pairs: those of xpath_fixer.py 233 and 236, in both orders
BalPairLists ==
    {<<>>,
     << <<"[", "]">> >>,
     << <<"(", ")">> >>,
     << <<"[", "]">>, <<"(", ")">> >>,
     << <<"(", ")">>, <<"[", "]">> >>}

BalIdle ==
    /\ bal_pc = "idle"
    /\ bal_text = <<>>
    /\ bal_pairs = <<>>
    /\ bal_issues = <<>>

BalInit ==
    /\ bal_pc = "start"
    /\ bal_text \in BalTexts
    /\ bal_pairs \in BalPairLists
    /\ bal_issues = <<>>

\* xpath_utils.py 23-53
BalFind ==
    /\ bal_pc = "start"
    /\ bal_issues' = find_unmatched_chars(bal_text, bal_pairs)
    /\ bal_pc' = "returned"
    /\ UNCHANGED <<bal_text, bal_pairs>>

BalNext == BalFind

-----------------------------------------------------------------------------
(* validator.py validate_xpath, robustness.py test_xpath_on_html and         *)
(* xpath_validator.py test_xpath_on_page                                     *)

LiveEntries == {"validate_xpath", "test_xpath_on_html", "test_xpath_on_page"}

\* the selectors handed to the calls: //a, the unbalanced //a[, the text a,
\* the bare //, and a value that is no string
LiveXpaths ==
    {Str(<<"/", "/", "a">>), Str(<<"/", "/", "a", "[">>), Str(<<"a">>),
     Str(<<"/", "/">>), NotAString}

\* how an awaited call ends: it returns, it raises an Exception, or the
\* task is cancelled in it (asyncio.CancelledError, no Exception)
AwaitOutcomes == {"ok", "error", "cancelled"}

\* a dict whose valid does not depend on the number of matches
ValidateXpathResultMutAlwaysValid(match_count, error) ==
    [valid |-> TRUE, match_count |-> match_count, error |-> error]

\* validator.py 93-117: the dicts validate_xpath returns
ValidateXpathResult(match_count, error) ==
    [valid |-> match_count > 0, match_count |-> match_count, error |-> error]

\* robustness.py 184 and 189: the tuples test_xpath_on_html returns
HtmlTestResult(success, match_count, error) ==
    [success |-> success, match_count |-> match_count, error |-> error]

\* xpath_validator.py 124-130: the dict test_xpath_on_page returns
PageTestResult(success, match_count, error, page_loaded) ==
    [success |-> success, match_count |-> match_count, error |-> error,
     page_loaded |-> page_loaded]

\* leaving the block of async with async_playwright() stops the driver,
\* which ends a browser it has launched and that is still open
StoppedMutLeftOpen(resource) == resource

Stopped(resource) == IF resource = "open" THEN "closed" ELSE resource

\* browser.close(): the browser, and the contexts that closing it closes
Closed(resource) == IF resource = "open" THEN "closed" ELSE resource

\* xpath_validator.py 138: the live test goes on when the analyzer accepts
PageTestProceedsMutAlways(validation) == TRUE

PageTestProceeds(validation) == validation.is_valid

LiveIdle ==
    /\ live_pc = "idle"
    /\ live_entry = "validate_xpath"
    /\ live_xpath = NotAString
    /\ live_env = [playwright |-> TRUE, lxml |-> "absent"]
    /\ live_playwright = "idle"
    /\ live_browser = "none"
    /\ live_context = "none"
    /\ live_exc = "none"
    /\ live_events = <<>>
    /\ live_ret = <<>>

LiveInit ==
    /\ live_pc = "start"
    /\ live_entry \in LiveEntries
    /\ live_xpath \in LiveXpaths
    /\ live_env \in [playwright : BOOLEAN, lxml : LxmlEnvironments]
    /\ live_playwright = "idle"
    /\ live_browser = "none"
    /\ live_context = "none"
    /\ live_exc = "none"
    /\ live_events = <<>>
    /\ live_ret = <<>>

\* validator.py 27-30: browser = None, and the block of async_playwright()
\* is entered
ValidateXpathEnter ==
    /\ live_pc = "start"
    /\ live_entry = "validate_xpath"
    /\ \E o \in AwaitOutcomes :
        IF o = "ok"
        THEN /\ live_playwright' = "running"
             /\ live_pc' = "launch"
             /\ UNCHANGED live_exc
        ELSE /\ live_exc' = o
             /\ live_pc' = "outer"
             /\ UNCHANGED live_playwright
    /\ UNCHANGED <<live_entry, live_xpath, live_env, live_browser, live_context,
                   live_events, live_ret>>

\* validator.py 31-34: p.chromium.launch
ValidateXpathLaunch ==
    /\ live_pc = "launch"
    /\ live_entry = "validate_xpath"
    /\ \E o \in AwaitOutcomes :
        IF o = "ok"
        THEN /\ live_browser' = "open"
             /\ live_events' = Append(live_events, "launch")
             /\ live_pc' = "context"
             /\ UNCHANGED live_exc
        ELSE /\ live_exc' = o
             /\ live_pc' = "exit"
             /\ UNCHANGED <<live_browser, live_events>>
    /\ UNCHANGED <<live_entry, live_xpath, live_env, live_playwright,
                   live_context, live_ret>>

\* validator.py 36-41: browser.new_context, and then context.new_page
ValidateXpathContext ==
    /\ live_pc = "context"
    /\ live_entry = "validate_xpath"
    /\ \E new_context \in AwaitOutcomes, new_page \in AwaitOutcomes :
        IF new_context # "ok"
        THEN /\ live_exc' = new_context
             /\ live_pc' = "exit"
             /\ UNCHANGED live_context
        ELSE /\ live_context' = "open"
             /\ IF new_page = "ok"
                THEN live_pc' = "navigate" /\ UNCHANGED live_exc
                ELSE live_pc' = "exit" /\ live_exc' = new_page
    /\ UNCHANGED <<live_entry, live_xpath, live_env, live_playwright,
                   live_browser, live_events, live_ret>>

\* validator.py 43-49: the bare except takes whatever page.goto and
\* wait_for_load_state raise, and page.wait_for_timeout runs outside a try
ValidateXpathNavigate ==
    /\ live_pc = "navigate"
    /\ live_entry = "validate_xpath"
    /\ \E load \in AwaitOutcomes, wait_for_timeout \in AwaitOutcomes :
        IF load = "ok" \/ wait_for_timeout = "ok"
        THEN live_pc' = "evaluate" /\ UNCHANGED live_exc
        ELSE live_pc' = "exit" /\ live_exc' = wait_for_timeout
    /\ UNCHANGED <<live_entry, live_xpath, live_env, live_playwright,
                   live_browser, live_context, live_events, live_ret>>

\* validator.py 51-106: locator.count and the details of the first element;
\* an Exception is turned into the evaluation error
ValidateXpathEvaluate ==
    /\ live_pc = "evaluate"
    /\ live_entry = "validate_xpath"
    /\ \E o \in AwaitOutcomes, match_count \in 0..MaxMatch :
        CASE o = "ok" ->
                /\ live_ret' = <<ValidateXpathResult(match_count, "None")>>
                /\ UNCHANGED live_exc
          [] o = "error" ->
                /\ live_ret' = <<ValidateXpathResult(0, "XPath evaluation error")>>
                /\ UNCHANGED live_exc
          [] o = "cancelled" ->
                /\ live_exc' = "cancelled"
                /\ UNCHANGED live_ret
    /\ live_pc' = "context_close"
    /\ UNCHANGED <<live_entry, live_xpath, live_env, live_playwright,
                   live_browser, live_context, live_events>>

\* validator.py 108-109: finally: await context.close(); what it raises
\* takes the place of the return
ValidateXpathContextClose ==
    /\ live_pc = "context_close"
    /\ live_entry = "validate_xpath"
    /\ \E o \in AwaitOutcomes :
        IF o = "ok"
        THEN /\ live_context' = "closed"
             /\ UNCHANGED <<live_exc, live_ret>>
        ELSE /\ live_exc' = o
             /\ live_ret' = <<>>
             /\ UNCHANGED live_context
    /\ live_pc' = "exit"
    /\ UNCHANGED <<live_entry, live_xpath, live_env, live_playwright,
                   live_browser, live_events>>

\* validator.py 30: the block of async with is left
ValidateXpathExit ==
    /\ live_pc = "exit"
    /\ live_entry = "validate_xpath"
    /\ live_playwright' = "stopped"
    /\ live_browser' = Stopped(live_browser)
    /\ live_context' = Stopped(live_context)
    /\ live_pc' = "outer"
    /\ UNCHANGED <<live_entry, live_xpath, live_env, live_exc, live_events,
                   live_ret>>

\* validator.py 111-120: except Exception returns the browser error, and
\* finally closes the browser when one was launched
ValidateXpathFinally ==
    /\ live_pc = "outer"
    /\ live_entry = "validate_xpath"
    /\ LET caught == live_exc = "error"
           exc == IF caught THEN "none" ELSE live_exc
           ret == IF caught THEN <<ValidateXpathResult(0, "Browser error")>>
                  ELSE live_ret
       IN  IF live_browser = "none"
           THEN /\ live_exc' = exc
                /\ live_ret' = ret
                /\ live_pc' = IF exc = "none" THEN "returned" ELSE "raised"
                /\ UNCHANGED <<live_browser, live_context>>
           ELSE \E o \in AwaitOutcomes :
                IF o = "ok"
                THEN /\ live_browser' = Closed(live_browser)
                     /\ live_context' = Closed(live_context)
                     /\ live_exc' = exc
                     /\ live_ret' = ret
                     /\ live_pc' = IF exc = "none" THEN "returned" ELSE "raised"
                ELSE /\ live_exc' = o
                     /\ live_ret' = <<>>
                     /\ live_pc' = "raised"
                     /\ UNCHANGED <<live_browser, live_context>>
    /\ UNCHANGED <<live_entry, live_xpath, live_env, live_playwright, live_events>>

\* xpath_validator.py 132-140: without Playwright, and for a selector the
\* analyzer rejects, the call returns before anything is launched; the
\* re.error of is_likely_xpath leaves the call
PageTestCheck ==
    /\ live_pc = "start"
    /\ live_entry = "test_xpath_on_page"
    /\ IF ~live_env.playwright
       THEN /\ live_ret' = <<PageTestResult(FALSE, 0,
                                "Playwright not available for live testing", FALSE)>>
            /\ live_pc' = "returned"
            /\ UNCHANGED <<live_events, live_exc>>
       ELSE \E validation \in {validate_xpath_syntax(live_xpath, live_env.lxml)} :
            /\ live_events' = Append(live_events, "analyze")
            /\ IF validation.raises
               THEN /\ live_exc' = "error"
                    /\ live_pc' = "raised"
                    /\ UNCHANGED live_ret
               ELSE IF PageTestProceeds(validation)
               THEN /\ live_pc' = "enter"
                    /\ UNCHANGED <<live_ret, live_exc>>
               ELSE /\ live_ret' = <<PageTestResult(FALSE, 0, "XPath syntax invalid",
                                                    FALSE)>>
                    /\ live_pc' = "returned"
                    /\ UNCHANGED live_exc
    /\ UNCHANGED <<live_entry, live_xpath, live_env, live_playwright,
                   live_browser, live_context>>

\* the value of the entry point for a failure with message error
TestFailure(entry, error, page_loaded) ==
    IF entry = "test_xpath_on_html"
    THEN HtmlTestResult(FALSE, 0, error)
    ELSE PageTestResult(FALSE, 0, error, page_loaded)

\* robustness.py 171 and xpath_validator.py 142: the block of
\* async_playwright() is entered, outside every try
TestEnter ==
    /\ \/ live_pc = "start" /\ live_entry = "test_xpath_on_html"
       \/ live_pc = "enter" /\ live_entry = "test_xpath_on_page"
    /\ \E o \in AwaitOutcomes :
        IF o = "ok"
        THEN /\ live_playwright' = "running"
             /\ live_pc' = "launch"
             /\ UNCHANGED live_exc
        ELSE /\ live_exc' = o
             /\ live_pc' = "raised"
             /\ UNCHANGED live_playwright
    /\ UNCHANGED <<live_entry, live_xpath, live_env, live_browser, live_context,
                   live_events, live_ret>>

\* robustness.py 173 and xpath_validator.py 144: p.chromium.launch; when it
\* raises an Exception the handler finds no browser among the locals
TestLaunch ==
    /\ live_pc = "launch"
    /\ live_entry \in {"test_xpath_on_html", "test_xpath_on_page"}
    /\ \E o \in AwaitOutcomes :
        CASE o = "ok" ->
                /\ live_browser' = "open"
                /\ live_events' = Append(live_events, "launch")
                /\ live_pc' = "run"
                /\ UNCHANGED <<live_exc, live_ret>>
          [] o = "error" ->
                /\ live_ret' = <<TestFailure(live_entry, "str(e)", FALSE)>>
                /\ live_pc' = "exit"
                /\ UNCHANGED <<live_browser, live_events, live_exc>>
          [] o = "cancelled" ->
                /\ live_exc' = "cancelled"
                /\ live_pc' = "exit"
                /\ UNCHANGED <<live_browser, live_events, live_ret>>
    /\ UNCHANGED <<live_entry, live_xpath, live_env, live_playwright, live_context>>

\* robustness.py 174-181 and xpath_validator.py 145-182: the context, the
\* page, its content and the query; a failure comes before or after the
\* context exists, and before or after the page is loaded
TestRun ==
    /\ live_pc = "run"
    /\ live_entry \in {"test_xpath_on_html", "test_xpath_on_page"}
    /\ \E o \in AwaitOutcomes, match_count \in 0..MaxMatch,
          context \in {"none", "open"}, page_loaded \in BOOLEAN :
        CASE o = "ok" ->
                /\ live_context' = "open"
                /\ live_ret' = << IF live_entry = "test_xpath_on_html"
                                  THEN HtmlTestResult(TRUE, match_count, "None")
                                  ELSE PageTestResult(TRUE, match_count, "None", TRUE) >>
                /\ live_pc' = "close"
                /\ UNCHANGED live_exc
          [] o = "error" ->
                /\ live_context' = context
                /\ live_ret' = <<TestFailure(live_entry, "str(e)",
                                             page_loaded /\ context = "open")>>
                /\ live_pc' = "handler"
                /\ UNCHANGED live_exc
          [] o = "cancelled" ->
                /\ live_context' = context
                /\ live_exc' = "cancelled"
                /\ live_pc' = "exit"
                /\ UNCHANGED live_ret
    /\ UNCHANGED <<live_entry, live_xpath, live_env, live_playwright,
                   live_browser, live_events>>

\* robustness.py 183-184 and xpath_validator.py 184-185: browser.close()
\* inside the try; test_xpath_on_page has set success before it
TestClose ==
    /\ live_pc = "close"
    /\ live_entry \in {"test_xpath_on_html", "test_xpath_on_page"}
    /\ \E o \in AwaitOutcomes :
        CASE o = "ok" ->
                /\ live_browser' = Closed(live_browser)
                /\ live_context' = Closed(live_context)
                /\ live_pc' = "exit"
                /\ UNCHANGED <<live_exc, live_ret>>
          [] o = "error" ->
                /\ live_ret' = << IF live_entry = "test_xpath_on_html"
                                  THEN HtmlTestResult(FALSE, 0, "str(e)")
                                  ELSE [live_ret[1] EXCEPT !.error = "str(e)"] >>
                /\ live_pc' = "handler"
                /\ UNCHANGED <<live_browser, live_context, live_exc>>
          [] o = "cancelled" ->
                /\ live_exc' = "cancelled"
                /\ live_ret' = <<>>
                /\ live_pc' = "exit"
                /\ UNCHANGED <<live_browser, live_context>>
    /\ UNCHANGED <<live_entry, live_xpath, live_env, live_playwright, live_events>>

\* robustness.py 186-189: the handler closes the browser, and what close
\* raises leaves the call; xpath_validator.py 187-193: the handler closes
\* the browser inside a try with a bare except
TestHandler ==
    /\ live_pc = "handler"
    /\ live_entry \in {"test_xpath_on_html", "test_xpath_on_page"}
    /\ \E o \in AwaitOutcomes :
        IF o = "ok"
        THEN /\ live_browser' = Closed(live_browser)
             /\ live_context' = Closed(live_context)
             /\ UNCHANGED <<live_exc, live_ret>>
        ELSE /\ UNCHANGED <<live_browser, live_context>>
             /\ IF live_entry = "test_xpath_on_html"
                THEN live_exc' = o /\ live_ret' = <<>>
                ELSE UNCHANGED <<live_exc, live_ret>>
    /\ live_pc' = "exit"
    /\ UNCHANGED <<live_entry, live_xpath, live_env, live_playwright, live_events>>

\* robustness.py 171 and xpath_validator.py 142: the block of async with is
\* left, and the call returns or raises
TestExit ==
    /\ live_pc = "exit"
    /\ live_entry \in {"test_xpath_on_html", "test_xpath_on_page"}
    /\ live_playwright' = "stopped"
    /\ live_browser' = Stopped(live_browser)
    /\ live_context' = Stopped(live_context)
    /\ live_pc' = IF live_exc = "none" THEN "returned" ELSE "raised"
    /\ UNCHANGED <<live_entry, live_xpath, live_env, live_exc, live_events,
                   live_ret>>

LiveNext ==
    \/ ValidateXpathEnter
    \/ ValidateXpathLaunch
    \/ ValidateXpathContext
    \/ ValidateXpathNavigate
    \/ ValidateXpathEvaluate
    \/ ValidateXpathContextClose
    \/ ValidateXpathExit
    \/ ValidateXpathFinally
    \/ PageTestCheck
    \/ TestEnter
    \/ TestLaunch
    \/ TestRun
    \/ TestClose
    \/ TestHandler
    \/ TestExit

-----------------------------------------------------------------------------
(* app.py compare_versions *)

\* app.py 329-331: the tasks, in the order they are created and awaited
Versions == <<"v1", "v2", "v3">>

VersionSet == {Versions[k] : k \in 1..Len(Versions)}

NotStarted == [kind |-> "none yet", validated |-> FALSE, match_count |-> 0,
               convertible |-> FALSE]

\* how the generate call of a version ends: it returns a result dict, which
\* the response models accept or not, it raises, or (v3_generate) it returns
\* None
GenerateOutcomes(ver) ==
    [kind : {"dict"}, validated : BOOLEAN, match_count : 0..MaxMatch,
     convertible : BOOLEAN]
    \cup {[kind |-> "raises", validated |-> FALSE, match_count |-> 0,
           convertible |-> FALSE]}
    \cup (IF ver = "v3"
          THEN {[kind |-> "None", validated |-> FALSE, match_count |-> 0,
                 convertible |-> FALSE]}
          ELSE {})

\* app.py 50-57
GenerateResponse(xp, ver, validated, match_count, log) ==
    [xpath |-> xp, version |-> ver, validated |-> validated,
     match_count |-> match_count, process_log |-> log]

\* app.py 316-327: the response of a version of which the task has failed
ErrorResponse(ver) ==
    GenerateResponse("//body", ver, FALSE, 0,
                     <<[step |-> "error", status |-> "failed"]>>)

\* app.py 287-327: the try of run_version takes every Exception of the
\* generate call and of the conversion of its result
RunVersionCatchesMutNothing(outcome) == FALSE

RunVersionCatches(outcome) == TRUE

CmpIdle ==
    /\ cmp_pc = "idle"
    /\ cmp_tasks = [v \in VersionSet |-> "none"]
    /\ cmp_outcome = [v \in VersionSet |-> NotStarted]
    /\ cmp_result = [v \in VersionSet |-> <<>>]
    /\ cmp_joined = <<>>
    /\ cmp_ret = <<>>

CmpInit ==
    /\ cmp_pc = "start"
    /\ cmp_tasks = [v \in VersionSet |-> "none"]
    /\ cmp_outcome = [v \in VersionSet |-> NotStarted]
    /\ cmp_result = [v \in VersionSet |-> <<>>]
    /\ cmp_joined = <<>>
    /\ cmp_ret = <<>>

\* app.py 329-331: the three tasks are created before the first await
CmpCreateTasks ==
    /\ cmp_pc = "start"
    /\ cmp_tasks' = [v \in VersionSet |-> "created"]
    /\ cmp_pc' = "joining"
    /\ UNCHANGED <<cmp_outcome, cmp_result, cmp_joined, cmp_ret>>

\* app.py 285-292: the task of a version runs its generate call
TaskGenerate(ver) ==
    /\ cmp_tasks[ver] = "created"
    /\ \E outcome \in GenerateOutcomes(ver) :
        cmp_outcome' = [cmp_outcome EXCEPT ![ver] = outcome]
    /\ cmp_tasks' = [cmp_tasks EXCEPT ![ver] = "generated"]
    /\ UNCHANGED <<cmp_pc, cmp_result, cmp_joined, cmp_ret>>

\* app.py 294-327: the result is converted and returned; the exception of
\* the generate call, the membership test on None and a result the response
\* models reject end in the handler of run_version
TaskRespond(ver) ==
    /\ cmp_tasks[ver] = "generated"
    /\ LET outcome == cmp_outcome[ver]
       IN  IF outcome.kind = "dict" /\ outcome.convertible
           THEN /\ cmp_result' =
                    [cmp_result EXCEPT ![ver] =
                        <<GenerateResponse("xpath", ver, outcome.validated,
                                           outcome.match_count, <<>>)>>]
                /\ cmp_tasks' = [cmp_tasks EXCEPT ![ver] = "done"]
           ELSE IF RunVersionCatches(outcome)
           THEN /\ cmp_result' =
                    [cmp_result EXCEPT ![ver] = <<ErrorResponse(ver)>>]
                /\ cmp_tasks' = [cmp_tasks EXCEPT ![ver] = "done"]
           ELSE /\ cmp_tasks' = [cmp_tasks EXCEPT ![ver] = "raised"]
                /\ UNCHANGED cmp_result
    /\ UNCHANGED <<cmp_pc, cmp_outcome, cmp_joined, cmp_ret>>

\* app.py 334-336: the handler awaits the tasks in the order v1, v2, v3; the
\* exception of a task would leave the handler at its await (app.py 398-407)
CmpJoin ==
    /\ cmp_pc = "joining"
    /\ Len(cmp_joined) < Len(Versions)
    /\ LET ver == Versions[Len(cmp_joined) + 1]
       IN  /\ cmp_tasks[ver] \in {"done", "raised"}
           /\ IF cmp_tasks[ver] = "done"
              THEN /\ cmp_joined' = Append(cmp_joined, ver)
                   /\ UNCHANGED cmp_pc
              ELSE /\ cmp_pc' = "failed"
                   /\ UNCHANGED cmp_joined
    /\ UNCHANGED <<cmp_tasks, cmp_outcome, cmp_result, cmp_ret>>

\* app.py 338-396: the summary and the response
CmpRespond ==
    /\ cmp_pc = "joining"
    /\ Len(cmp_joined) = Len(Versions)
    /\ cmp_ret' = << [v \in VersionSet |-> cmp_result[v][1]] >>
    /\ cmp_pc' = "responded"
    /\ UNCHANGED <<cmp_tasks, cmp_outcome, cmp_result, cmp_joined>>

CmpNext ==
    \/ CmpCreateTasks
    \/ \E ver \in VersionSet : TaskGenerate(ver)
    \/ \E ver \in VersionSet : TaskRespond(ver)
    \/ CmpJoin
    \/ CmpRespond

-----------------------------------------------------------------------------
(* v3_generate of v3_simplified: the adaptive strategy *)

\* the selectors a response of the text generation can lead to
AdpXpaths == {"//a", "//a[@id='x']"}

\* v3_simplified.py 651, 684, 688: the basic selector used as fallback
BasicXpath == "//input | //button | //a"

AdpSelectors == AdpXpaths \cup {BasicXpath}

\* v3_simplified.py 360: the selectors that are penalised as too generic
GenericSelectors ==
    {"//a", "//button", "//input", "//a[@role='button']",
     "//button[@type='button']"}

Min(a, b) == IF a < b THEN a ELSE b

Max(a, b) == IF a > b THEN a ELSE b

\* v3_simplified.py 325-366: score_xpath_quality on a page where the selector
\* matches element_count elements; term_found tells whether the text of the
\* first one holds a content term of the instruction
score_xpath_quality(xp, element_count, term_found) ==
    IF element_count = 0 THEN 0
    ELSE LET base == IF element_count = 1 THEN 100
                     ELSE IF element_count <= 3 THEN 80
                     ELSE IF element_count <= 10 THEN 60
                     ELSE 40
             bonus == IF term_found THEN 20 ELSE 0
             penalty == IF xp \in GenericSelectors THEN 30 ELSE 0
         IN  Max(0, Min(100, base + bonus - penalty))

\* v3_simplified.py 587-651: how an attempt ends up with its selector, or
\* raises: messages.create raises, the response holds no selector, the
\* extracted selector is valid, it is repaired with confidence > 0.7, it is
\* used unrepaired, or validate_xpath_syntax / fix_xpath raises
GenerationKinds ==
    {"create_raises", "no_xpath", "valid", "fixed", "unfixed", "fix_raises"}

GenerationRaises(kind) == kind \in {"create_raises", "fix_raises"}

\* v3_simplified.py 570-651: the entries an attempt logs for its generation
GenerationLog(kind) ==
    {LogStep("xpath_generation", "running")}
    \cup (IF kind = "create_raises" THEN {}
          ELSE {LogStep("claude_response", "debug")})
    \cup (IF kind \in {"valid", "fixed", "unfixed", "fix_raises"}
          THEN {LogStep("xpath_validation", "running")} ELSE {})
    \cup (IF kind \in {"fixed", "unfixed", "fix_raises"}
          THEN {LogStep("xpath_fixing", "running")} ELSE {})
    \cup (IF kind \in {"valid", "fixed"}
          THEN {LogStep("xpath_generation", "success")} ELSE {})
    \cup (IF kind = "fixed" THEN {LogStep("xpath_fixing", "success")} ELSE {})
    \cup (IF kind \in {"unfixed", "no_xpath"}
          THEN {LogStep("xpath_generation", "warning")} ELSE {})
    \cup (IF GenerationRaises(kind)
          THEN {LogStep("xpath_generation", "error")} ELSE {})

\* v3_simplified.py 746-755, 762-768, 774-780: the returned dicts
AdpRecord(x, validated, match_count, element_info, log) ==
    [xpath |-> x, validated |-> validated, match_count |-> match_count,
     element_info |-> element_info, process_log |-> log]

AdpReturn(rec) ==
    /\ adp_ret' = <<rec>>
    /\ adp_log' = rec.process_log
    /\ adp_pc' = "returned"

\* v3_simplified.py 768-780: the handler of the outer try; br is the state
\* of the browser when the exception was raised
AdpCriticalError(log, br) ==
    LET log2 == log \cup {LogStep("critical_error", "failed")}
        rec == AdpRecord("//body", FALSE, 0, "Error", log2)
    IN  IF br = "none"
        THEN adp_browser' = br /\ AdpReturn(rec)
        ELSE \E close_raises \in BOOLEAN :
                IF close_raises
                THEN /\ adp_browser' = br
                     /\ adp_log' = log2
                     /\ adp_ret' = <<>>
                     /\ adp_pc' = "raised"
                ELSE adp_browser' = "closed" /\ AdpReturn(rec)

\* v3_simplified.py 759-768: the handler of the final validation
AdpValidationError(x, log) ==
    LET log2 == log \cup {LogStep("validation", "error")}
    IN  \E close_raises \in BOOLEAN :
            IF close_raises
            THEN AdpCriticalError(log2, "open")
            ELSE /\ adp_browser' = "closed"
                 /\ AdpReturn(AdpRecord(x, FALSE, 0, "Validation error", log2))

\* v3_simplified.py 746-750: validated is match_count > 0
FinalRecord(x, match_count, log) ==
    AdpRecord(x, match_count > 0, match_count,
              IF match_count > 0 THEN "info" ELSE "No elements matched", log)

AdpIdle ==
    /\ adp_pc = "idle"
    /\ adp_env = "ready"
    /\ adp_page = [x \in AdpSelectors |-> 0]
    /\ adp_browser = "none"
    /\ adp_attempt = 0
    /\ generated_xpath = None
    /\ enrichment_data = None
    /\ adp_trace = <<>>
    /\ adp_log = {}
    /\ adp_ret = <<>>

AdpInit ==
    /\ adp_pc = "start"
    /\ adp_env \in {"unavailable", "ready"}
    /\ adp_page \in [AdpSelectors -> 0..MaxMatch]
    /\ adp_browser = "none"
    /\ adp_attempt = 0
    /\ generated_xpath = None
    /\ enrichment_data = None
    /\ adp_trace = <<>>
    /\ adp_log = {}
    /\ adp_ret = <<>>

\* v3_simplified.py 493-500: the dependency check
AdpCheck ==
    /\ adp_pc = "start"
    /\ IF adp_env = "unavailable"
       THEN AdpReturn(AdpRecord("//body", FALSE, 0,
                                "V3 dependencies not available",
                                {LogStep("dependency_check", "failed")}))
       ELSE /\ adp_pc' = "setup"
            /\ UNCHANGED <<adp_log, adp_ret>>
    /\ UNCHANGED <<adp_env, adp_page, adp_browser, adp_attempt,
                   generated_xpath, enrichment_data, adp_trace>>

\* v3_simplified.py 510-542: browser launch, page load, analysis of the intent
AdpSetup ==
    /\ adp_pc = "setup"
    /\ \E outcome \in {"launch_raises", "load_raises", "loaded"},
          intent_found \in BOOLEAN :
        LET log1 == adp_log \cup {LogStep("browser_launch", "running")}
            log2 == log1 \cup {LogStep("page_load", "running")}
            log3 == log2 \cup
                    {LogStep("page_load", "success"),
                     LogStep("intent_analysis", "running"),
                     LogStep("intent_analysis",
                             IF intent_found THEN "success" ELSE "skipped")}
        IN  IF outcome = "launch_raises" THEN AdpCriticalError(log1, "none")
            ELSE IF outcome = "load_raises" THEN AdpCriticalError(log2, "open")
            ELSE /\ adp_browser' = "open"
                 /\ adp_log' = log3
                 /\ adp_pc' = "attempt"
                 /\ UNCHANGED adp_ret
    /\ UNCHANGED <<adp_env, adp_page, adp_attempt, generated_xpath,
                   enrichment_data, adp_trace>>

\* v3_simplified.py 655-677: the quick validation of the attempt's selector
\* and what the loop does next: "break" or "continue"
QuickValidation(a, x, query_raises) ==
    IF query_raises
    THEN [log |-> IF a < 2 THEN {LogStep("quick_validation", "error")} ELSE {},
          next |-> IF a < 2 THEN "continue" ELSE "break"]
    ELSE IF adp_page[x] > 0
    THEN [log |-> {LogStep("quick_validation", "success")}, next |-> "break"]
    ELSE IF a < 2
    THEN [log |-> {LogStep("quick_validation", "warning")}, next |-> "continue"]
    ELSE [log |-> {LogStep("quick_validation", "failed")}, next |-> "break"]

\* a loop that goes on to attempt 2 whatever attempt 1 found
AfterAttemptMutNoBreak(a, next) == IF a >= 2 THEN "final" ELSE "attempt"

\* v3_simplified.py 544: for attempt in range(1, 3); the loop is left by a
\* break or after the body of attempt 2
AfterAttempt(a, next) == IF next = "break" \/ a >= 2 THEN "final" ELSE "attempt"

\* v3_simplified.py 544-684: one attempt of the loop; of html_extraction
\* the log keeps the entry "running", not the outcome entry of 562-566
AdpAttempt ==
    /\ adp_pc = "attempt"
    /\ adp_attempt < 2
    /\ adp_attempt' = adp_attempt + 1
    /\ \E enriched \in BOOLEAN, prepare_raises \in BOOLEAN,
          kind \in GenerationKinds, out \in AdpXpaths, query_raises \in BOOLEAN :
        LET a == adp_attempt + 1
            log1 == adp_log
                    \cup (IF a > 1 /\ enrichment_data = None
                          THEN {LogStep("llm_enrichment", "running"),
                                LogStep("llm_enrichment",
                                        IF enriched THEN "success" ELSE "warning")}
                          ELSE {})
                    \cup {LogStep("html_extraction", "running")}
            log2 == log1 \cup GenerationLog(kind)
            candidate == IF kind = "no_xpath" THEN BasicXpath ELSE out
            quick == QuickValidation(a, candidate, query_raises)
        IN  /\ enrichment_data' =
                 IF a > 1 /\ enrichment_data = None
                 THEN (IF enriched THEN "enriched" ELSE "not enriched")
                 ELSE enrichment_data
            /\ IF prepare_raises
               THEN /\ AdpCriticalError(log1, "open")
                    /\ UNCHANGED <<generated_xpath, adp_trace>>
               ELSE IF GenerationRaises(kind)
               THEN /\ generated_xpath' =
                         IF a < 2 THEN generated_xpath ELSE BasicXpath
                    /\ adp_trace' = Append(adp_trace,
                         [attempt |-> a, raised |-> TRUE, candidate |-> None,
                          query_raises |-> FALSE, match_count |-> 0])
                    /\ adp_log' = log2
                    /\ adp_pc' = AfterAttempt(a, "continue")
                    /\ UNCHANGED <<adp_browser, adp_ret>>
               ELSE /\ generated_xpath' = candidate
                    /\ adp_trace' = Append(adp_trace,
                         [attempt |-> a, raised |-> FALSE, candidate |-> candidate,
                          query_raises |-> query_raises,
                          match_count |-> IF query_raises THEN 0
                                          ELSE adp_page[candidate]])
                    /\ adp_log' = log2 \cup quick.log
                    /\ adp_pc' = AfterAttempt(a, quick.next)
                    /\ UNCHANGED <<adp_browser, adp_ret>>
    /\ UNCHANGED <<adp_env, adp_page>>

\* v3_simplified.py 686-766: the final fallback, the final validation and
\* the return
AdpFinal ==
    /\ adp_pc = "final"
    /\ \E query_raises \in BOOLEAN, evaluate_raises \in BOOLEAN,
          close_raises \in BOOLEAN :
        LET x == IF generated_xpath = None THEN BasicXpath ELSE generated_xpath
            log1 == adp_log
                    \cup (IF generated_xpath = None
                          THEN {LogStep("xpath_generation", "fallback")} ELSE {})
                    \cup {LogStep("validation", "running")}
            match_count == adp_page[x]
            log2 == log1
                    \cup {LogStep("validation",
                                  IF match_count > 0 THEN "success" ELSE "warning"),
                          LogStep("robustness_check", "success")}
        IN  /\ generated_xpath' = x
            /\ IF query_raises THEN AdpValidationError(x, log1)
               ELSE IF match_count > 0 /\ evaluate_raises
               THEN AdpValidationError(x, log1)
               ELSE IF close_raises THEN AdpValidationError(x, log2)
               ELSE /\ adp_browser' = "closed"
                    /\ AdpReturn(FinalRecord(x, match_count, log2))
    /\ UNCHANGED <<adp_env, adp_page, adp_attempt, enrichment_data,
                   adp_trace>>

AdpNext ==
    \/ AdpCheck
    \/ AdpSetup
    \/ AdpAttempt
    \/ AdpFinal

\* Each specification runs one operation; the state of the others stays idle.
InitGen == GenInit /\ RetryIdle /\ RobIdle /\ V3Idle /\ FixIdle /\ BalIdle /\
    LiveIdle /\ CmpIdle /\ AdpIdle

InitRetry == RetryInit /\ GenIdle /\ RobIdle /\ V3Idle /\ FixIdle /\
    BalIdle /\ LiveIdle /\ CmpIdle /\ AdpIdle

InitRobust == RobInit /\ GenIdle /\ RetryIdle /\ V3Idle /\ FixIdle /\
    BalIdle /\ LiveIdle /\ CmpIdle /\ AdpIdle

InitV3 == V3Init /\ GenIdle /\ RetryIdle /\ RobIdle /\ FixIdle /\ BalIdle /\
    LiveIdle /\ CmpIdle /\ AdpIdle

InitFix == FixInit /\ GenIdle /\ RetryIdle /\ RobIdle /\ V3Idle /\ BalIdle /\
    LiveIdle /\ CmpIdle /\ AdpIdle

InitBalance == BalInit /\ GenIdle /\ RetryIdle /\ RobIdle /\ V3Idle /\
    FixIdle /\ LiveIdle /\ CmpIdle /\ AdpIdle

InitLive == LiveInit /\ GenIdle /\ RetryIdle /\ RobIdle /\ V3Idle /\
    FixIdle /\ BalIdle /\ CmpIdle /\ AdpIdle

InitCompare == CmpInit /\ GenIdle /\ RetryIdle /\ RobIdle /\ V3Idle /\
    FixIdle /\ BalIdle /\ LiveIdle /\ AdpIdle

InitAdaptive == AdpInit /\ GenIdle /\ RetryIdle /\ RobIdle /\ V3Idle /\
    FixIdle /\ BalIdle /\ LiveIdle /\ CmpIdle

SpecGen ==
    InitGen /\ [][GenNext /\ UNCHANGED <<retryVars, robVars, v3Vars, fixVars,
        balVars, liveVars, cmpVars, adpVars>>]_vars

SpecRetry ==
    InitRetry /\ [][RetryNext /\ UNCHANGED <<genVars, robVars, v3Vars,
        fixVars, balVars, liveVars, cmpVars, adpVars>>]_vars

SpecRobust ==
    InitRobust /\ [][RobNext /\ UNCHANGED <<genVars, retryVars, v3Vars,
        fixVars, balVars, liveVars, cmpVars, adpVars>>]_vars

SpecV3 ==
    InitV3 /\ [][V3Next /\ UNCHANGED <<genVars, retryVars, robVars, fixVars,
        balVars, liveVars, cmpVars, adpVars>>]_vars

SpecFix ==
    InitFix /\ [][FixNext /\ UNCHANGED <<genVars, retryVars, robVars, v3Vars,
        balVars, liveVars, cmpVars, adpVars>>]_vars

SpecBalance ==
    InitBalance /\ [][BalNext /\ UNCHANGED <<genVars, retryVars, robVars,
        v3Vars, fixVars, liveVars, cmpVars, adpVars>>]_vars

SpecLive ==
    InitLive /\ [][LiveNext /\ UNCHANGED <<genVars, retryVars, robVars,
        v3Vars, fixVars, balVars, cmpVars, adpVars>>]_vars

SpecCompare ==
    InitCompare /\ [][CmpNext /\ UNCHANGED <<genVars, retryVars, robVars,
        v3Vars, fixVars, balVars, liveVars, adpVars>>]_vars

SpecAdaptive ==
    InitAdaptive /\ [][AdpNext /\ UNCHANGED <<genVars, retryVars, robVars,
        v3Vars, fixVars, balVars, liveVars, cmpVars>>]_vars

-----------------------------------------------------------------------------
(* Properties of v1 generate and v2 generate *)

IsValidateCall(c) == c.call = "validate"
ValidateCalls == SelectSeq(calls, IsValidateCall)

\* the live validation of call c matched at least one element
CallMatched(c) == ~c.raises /\ c.result.match_count >= 1

NoCallMatched == \A k \in 1..Len(ValidateCalls) : ~CallMatched(ValidateCalls[k])

FailureStatuses == {"failed", "error", "skipped"}

\* C1 (as stated): when no candidate validated, v2 generate returns
\* validated=false with the first candidate ever produced: the first
\* heuristic candidate if there is one, else the first generated candidate,
\* else the placeholder.
C1_ReturnsFirstEverProduced ==
    (version = "v2" /\ gen_pc = "done" /\ NoCallMatched) =>
        /\ gen_ret[1].validated = FALSE
        /\ gen_ret[1].xpath =
              IF Len(heuristic_xpaths) > 0 THEN heuristic_xpaths[1]
              ELSE IF Len(llm_xpaths) > 0 THEN llm_xpaths[1]
              ELSE "//body"

\* C1 (amended): when no candidate validated, v2 generate returns
\* validated=false and match_count 0 with the first generated candidate if
\* the generation produced one, else the first heuristic candidate, else the
\* placeholder //body.
C1_ReturnsFirstGeneratedElseHeuristic ==
    (version = "v2" /\ gen_pc = "done" /\ NoCallMatched) =>
        /\ gen_ret[1].validated = FALSE
        /\ gen_ret[1].match_count = 0
        /\ gen_ret[1].xpath =
              IF Len(llm_xpaths) > 0 THEN llm_xpaths[1]
              ELSE IF Len(heuristic_xpaths) > 0 THEN heuristic_xpaths[1]
              ELSE "//body"

\* both strategies produced candidates, with different first candidates,
\* and none validated
C1_Witness ==
    /\ version = "v2" /\ gen_pc = "done" /\ NoCallMatched
    /\ Len(heuristic_xpaths) > 0 /\ Len(llm_xpaths) > 0
    /\ heuristic_xpaths[1] # llm_xpaths[1]
    /\ gen_ret[1].xpath = llm_xpaths[1]

\* number of validate calls among the first p collaborator calls
ValidateCallsBefore(p) ==
    Cardinality({q \in 1..(p - 1) : IsValidateCall(calls[q])})

\* C2: v2 generate validates the heuristic candidates in list order, then
\* the generated candidates in list order; the generation collaborator is
\* called only after every heuristic candidate failed validation; the call
\* returns the first candidate whose validation matches, and validates no
\* candidate after it.
C2_StrictOrderFirstMatch ==
    version = "v2" =>
        LET V == ValidateCalls
            order == heuristic_xpaths \o llm_xpaths
        IN  /\ Len(V) <= Len(order)
            /\ \A k \in 1..Len(V) : V[k].arg = order[k]
            /\ \A p \in 1..Len(calls) :
                  calls[p].call = "generate_llm_candidates" =>
                      /\ ValidateCallsBefore(p) = Len(heuristic_xpaths)
                      /\ \A q \in 1..(p - 1) : ~CallMatched(calls[q])
            /\ \A k \in 1..Len(V) :
                  CallMatched(V[k]) =>
                      /\ k = Len(V)
                      /\ gen_pc = "done"
                      /\ gen_ret[1].xpath = V[k].arg
                      /\ gen_ret[1].validated
                      /\ gen_ret[1].match_count = V[k].result.match_count
            /\ gen_pc = "done" =>
                  \/ \E k \in 1..Len(V) : CallMatched(V[k])
                  \/ Len(V) = Len(order) /\ ~gen_ret[1].validated

\* every heuristic candidate failed, the first generated candidate failed
\* and the second one matched and was returned
C2_Witness ==
    /\ version = "v2" /\ gen_pc = "done"
    /\ Len(heuristic_xpaths) = 2 /\ Len(llm_xpaths) = 2
    /\ Len(ValidateCalls) = 4
    /\ CallMatched(ValidateCalls[4])
    /\ gen_ret[1].validated

\* C3 (as stated): a v1 or v2 generate call never propagates an exception
\* to its caller.
C3_NeverRaises == gen_pc # "raised"

\* C3 (amended): a v1 or v2 generate call propagates an exception only when
\* the HTML fetch fails or, in v1, when the text generation fails, after
\* logging the failure with status failed; a live validation that fails or
\* raises, and a failed text generation of v2, is recorded in process_log
\* and the call still returns a record with an xpath, with validated=false
\* unless a validation matched.
C3_RaisesOnlyOnFetchOrV1Generation ==
    /\ gen_pc = "raised" =>
          LET c == calls[Len(calls)]
          IN  /\ c.raises
              /\ c.call = "fetch" \/ (version = "v1" /\ c.call = "messages.create")
              /\ process_log[Len(process_log)].status = "failed"
              /\ gen_ret = <<>>
    /\ \A k \in 1..Len(calls) :
          (calls[k].call = "validate" /\ calls[k].raises) =>
              /\ gen_pc # "raised"
              /\ \E e \in 1..Len(process_log) :
                    process_log[e].status \in {"error", "skipped"}
    /\ Cardinality({e \in 1..Len(process_log) :
            /\ process_log[e].step \in {"Testing heuristic", "Testing LLM candidate",
                                         "Validating XPath"}
            /\ process_log[e].status \in FailureStatuses})
         = Cardinality({k \in 1..Len(ValidateCalls) : ~CallMatched(ValidateCalls[k])})
    /\ \A k \in 1..Len(calls) :
          (calls[k].call = "generate_llm_candidates" /\ calls[k].list = <<>>) =>
              \E e \in 1..Len(process_log) :
                  process_log[e] = Log("Generating candidates with Claude", 0, "failed")
    /\ gen_pc = "done" =>
          /\ Len(gen_ret) = 1
          /\ gen_ret[1].xpath \in Xpaths \cup {"//body"}
          /\ gen_ret[1].process_log = process_log
          /\ NoCallMatched => ~gen_ret[1].validated

\* a live validation raised, and the call returned an unvalidated record
C3_Witness ==
    /\ gen_pc = "done"
    /\ \E k \in 1..Len(ValidateCalls) : ValidateCalls[k].raises
    /\ NoCallMatched
    /\ ~gen_ret[1].validated

-----------------------------------------------------------------------------
(* Properties of validate_xpath_with_retry *)

AttemptIndices == {k \in 1..Len(retry_trace) : retry_trace[k].ev = "attempt"}
SleepIndices == {k \in 1..Len(retry_trace) : retry_trace[k].ev = "sleep"}

\* the attempt at trace index k ended in a transient error: a result whose
\* error is set and is not an XPath evaluation error
IsTransient(k) ==
    /\ ~retry_trace[k].raises
    /\ retry_trace[k].result.error # <<>>
    /\ retry_trace[k].result.error[1] # "XPath evaluation error"

RetryEnded == retry_pc \in {"returned", "raised"}

\* C5: validate_xpath_with_retry(max_retries=N) makes at most N+1 attempts,
\* sleeps only between two consecutive attempts (never before the first nor
\* after the last), and returns the last attempt's result when every
\* attempt ended in a transient error.
C5_BoundedAttemptsBackoffBetween ==
    /\ Cardinality(AttemptIndices) <= (IF max_retries >= 0 THEN max_retries + 1 ELSE 0)
    /\ \A k \in SleepIndices :
          /\ k > 1 /\ retry_trace[k - 1].ev = "attempt"
          /\ k < Len(retry_trace) => retry_trace[k + 1].ev = "attempt"
          /\ k = Len(retry_trace) => retry_pc = "attempt" /\ attempt <= max_retries
    /\ \A k \in AttemptIndices :
          (k < Len(retry_trace)) => retry_trace[k + 1].ev = "sleep"
    /\ (retry_pc = "returned" /\ AttemptIndices # {}
            /\ \A k \in AttemptIndices : IsTransient(k)) =>
          /\ retry_trace[Len(retry_trace)].ev = "attempt"
          /\ retry_ret = <<retry_trace[Len(retry_trace)].result>>

\* three attempts that all ended in a browser error, two sleeps, and the
\* last result returned
C5_Witness ==
    /\ retry_pc = "returned"
    /\ max_retries = 2
    /\ Cardinality(AttemptIndices) = 3
    /\ Cardinality(SleepIndices) = 2
    /\ \A k \in AttemptIndices : IsTransient(k)
    /\ retry_ret = <<retry_trace[5].result>>

\* C6 (as stated): a further attempt is made if and only if the previous
\* attempt's result carries an error that is not an XPath evaluation error.
C6_RetriesIffTransient ==
    RetryEnded =>
        \A k \in AttemptIndices :
            (\E j \in AttemptIndices : j > k) <=> IsTransient(k)

\* C6 (amended): a further attempt is made if and only if the previous
\* attempt's result carries an error that is not an XPath evaluation error
\* and fewer than max_retries + 1 attempts have been made; a result with no
\* error or with an evaluation error is returned at once, with no further
\* attempt and no backoff wait.
C6_RetriesIffTransientWithinBudget ==
    /\ RetryEnded =>
          \A k \in AttemptIndices :
              (\E j \in AttemptIndices : j > k)
                  <=> (IsTransient(k)
                       /\ Cardinality({j \in AttemptIndices : j <= k}) <= max_retries)
    /\ \A k \in AttemptIndices :
          (~retry_trace[k].raises /\ ~IsTransient(k)) =>
              /\ k = Len(retry_trace)
              /\ retry_pc = "returned"
              /\ retry_ret = <<retry_trace[k].result>>

\* a transient error was retried and the retry ended in an evaluation
\* error, which was returned at once
C6_Witness ==
    /\ retry_pc = "returned"
    /\ Len(retry_trace) = 3
    /\ IsTransient(1)
    /\ retry_trace[3].ev = "attempt"
    /\ retry_trace[3].result.error # <<>>
    /\ retry_trace[3].result.error[1] = "XPath evaluation error"
    /\ attempt < max_retries
    /\ retry_ret = <<retry_trace[3].result>>

-----------------------------------------------------------------------------
(* Properties of test_robustness *)

\* the baseline test returned an error or zero matches
BaselineFailure ==
    /\ tested # <<>>
    /\ ~tested[1].out.raises
    /\ (~tested[1].out.success \/ tested[1].out.count = 0)

\* C7: the returned score is between 0 and 1, and it is 0 whenever the
\* validation on the unmutated HTML errors or matches zero elements.
C7_ScoreBounds ==
    rob_pc = "returned" =>
        LET score == rob_ret[1].score
        IN  /\ score.den > 0
            /\ 0 <= score.num
            /\ score.num <= score.den
            /\ BaselineFailure => score.num = 0

\* the baseline matched and every mutation kind passed: the score is 1
C7_Witness ==
    /\ rob_pc = "returned"
    /\ ~BaselineFailure
    /\ rob_ret[1].score = [num |-> 6, den |-> 6]

\* C8: when the selector errors or matches nothing on the unmutated HTML,
\* test_robustness returns with all six kinds in failed, none in passed,
\* no mutation applied and no mutant validated.
C8_BaselineFailureShortCircuits ==
    BaselineFailure =>
        /\ rob_pc = "returned"
        /\ Range(rob_ret[1].failed) = Range(Mutations)
        /\ Len(rob_ret[1].failed) = 6
        /\ rob_ret[1].passed = <<>>
        /\ applied = <<>>
        /\ Len(tested) = 1
        /\ tested[1].html = "original"

\* the baseline ran without error, matched zero elements, and the call
\* returned
C8_Witness ==
    /\ rob_pc = "returned"
    /\ tested[1].out.success
    /\ tested[1].out.count = 0
    /\ Len(rob_ret[1].failed) = 6

\* the validation of the selector on the mutant of kind k succeeded and
\* matched at least one element
MutantMatched(k) ==
    \E t \in 1..Len(tested) :
        /\ tested[t].html = k
        /\ ~tested[t].out.raises
        /\ tested[t].out.success
        /\ tested[t].out.count >= 1

\* C9: a mutation kind is recorded in passed if and only if the validation
\* on that kind's mutant succeeds and matches at least one element, whatever
\* the baseline match count.
C9_PassedIffMutantMatches ==
    /\ \A k \in Range(applied) :
          /\ k \in Range(passed) <=> MutantMatched(k)
          /\ k \in Range(failed) <=> ~MutantMatched(k)
    /\ rob_pc = "returned" /\ ~BaselineFailure =>
          /\ Range(applied) = Range(Mutations)
          /\ rob_ret[1].passed = passed
          /\ rob_ret[1].failed = failed

\* a kind passed although its mutant matched another number of elements
\* than the baseline
C9_Witness ==
    /\ rob_pc = "returned"
    /\ "classes" \in Range(rob_ret[1].passed)
    /\ results["classes"].match_count # results["classes"].original_count
    /\ "ids" \in Range(rob_ret[1].failed)

-----------------------------------------------------------------------------
(* Properties of v3_generate of v3_enterprise *)

\* C4: every completed v3_generate call returns a result record carrying
\* xpath, validated, match_count, element_info and process_log, on every
\* exit path and for every sequence of match counts the page returns to
\* the successive selector queries.
C4_AlwaysReturnsRecord ==
    v3_pc = "returned" =>
        /\ v3_ret # <<>>
        /\ {"xpath", "validated", "match_count", "element_info", "process_log"}
              \subseteq DOMAIN v3_ret[1]

-----------------------------------------------------------------------------
(* Properties of fix_xpath *)

\* C10: whenever fix_xpath returns, validate_xpath_syntax applied to the
\* returned fixed_xpath returns a report, and is_fixed of the result equals
\* is_valid of that report.
C10_IsFixedIsValidityOfResult ==
    fix_pc = "returned" =>
        LET report == validate_xpath_syntax(fix_ret[1].fixed_xpath, lxml)
        IN  /\ ~report.raises
            /\ fix_ret[1].is_fixed = report.is_valid

\* a repair that turned an invalid selector into a valid one
C10_Witness ==
    /\ fix_pc = "returned"
    /\ fix_ret[1].is_fixed
    /\ fix_ret[1].changes_made # <<>>
    /\ LET before == validate_xpath_syntax(broken_xpath, lxml)
       IN  ~before.raises /\ ~before.is_valid

\* the report of validate_xpath_syntax on the input of fix_xpath
InputReport == validate_xpath_syntax(broken_xpath, lxml)

\* C11: when validate_xpath_syntax reports the input valid, fix_xpath returns
\* changes_made = [] and confidence = 1.0.
C11_ValidInputIsLeftAlone ==
    (fix_pc = "returned" /\ ~InputReport.raises /\ InputReport.is_valid) =>
        /\ fix_ret[1].changes_made = <<>>
        /\ fix_ret[1].confidence.num = fix_ret[1].confidence.den

\* //a[contains(text()  : a selector truncated right after text()
TruncatedAfterText == <<"/", "/", "a", "[">> \o S_contains_text_call

\* C13: for the selector //a[contains(text() and no instruction, fix_xpath
\* returns //a[contains(text(), "")] with is_fixed = true (etree.XPath, where
\* lxml is installed, compiles this well-formed selector).
C13_TruncatedContainsIsCompleted ==
    (/\ fix_pc = "returned"
     /\ broken_xpath = Str(TruncatedAfterText)
     /\ instruction = "None"
     /\ lxml # "rejects") =>
        /\ fix_ret[1].fixed_xpath
            = Str(<<"/", "/", "a", "[">> \o S_contains_text_empty \o <<"]">>)
        /\ fix_ret[1].is_fixed

\* the call on the truncated selector has returned, with both repairs logged
C13_Witness ==
    /\ fix_pc = "returned"
    /\ broken_xpath = Str(TruncatedAfterText)
    /\ instruction = "None"
    /\ lxml = "absent"
    /\ Len(fix_ret[1].changes_made) = 2

\* //a[@id=  : the selector up to an attribute value
UpToAttributeValue == <<"/", "/", "a", "[", "@", "i", "d", "=">>

\* the input is //a[@id=value] with a value free of quotes, blanks and
\* brackets; the value, else <<>>
UnquotedValue ==
    LET x == broken_xpath.chars
        n == Len(x)
        m == Len(UpToAttributeValue)
    IN  IF /\ broken_xpath.is_str
           /\ n >= m + 2
           /\ SubSeq(x, 1, m) = UpToAttributeValue
           /\ x[n] = "]"
           /\ \A k \in (m + 1)..(n - 1) : x[k] \in WordChars \cup {"/"}
        THEN SubSeq(x, m + 1, n - 1)
        ELSE <<>>

\* C14: for //a[@id=value], fix_xpath returns //a[@id="value"]: the value
\* wrapped in double quotes and nothing else changed.
C14_UnquotedValueIsQuoted ==
    (fix_pc = "returned" /\ UnquotedValue # <<>>) =>
        /\ fix_ret[1].fixed_xpath
            = Str(UpToAttributeValue \o <<"\"">> \o UnquotedValue \o <<"\"", "]">>)
        /\ Len(fix_ret[1].changes_made) = 1
        /\ fix_ret[1].changes_made[1].text
            = "Added missing quotes around attribute values"

C14_Witness ==
    /\ fix_pc = "returned"
    /\ UnquotedValue = <<"a">>
    /\ fix_ret[1].fixed_xpath.chars
        = <<"/", "/", "a", "[", "@", "i", "d", "=", "\"", "a", "\"", "]">>

-----------------------------------------------------------------------------
(* Properties of find_unmatched_chars *)

\* the text with its characters taken in the order pi
Reordered(text, pi) == [k \in 1..Len(text) |-> text[pi[k]]]

\* C12: find_unmatched_chars returns no issue if and only if every pair has
\* as many occurrences of open as of close, and every reordering of the
\* characters of the text gives the same issues.
C12_IssuesFollowCountsOnly ==
    bal_pc = "returned" =>
        /\ bal_issues = <<>>
            <=> \A k \in 1..Len(bal_pairs) :
                    count(bal_text, bal_pairs[k][1]) = count(bal_text, bal_pairs[k][2])
        /\ \A pi \in Permutations(1..Len(bal_text)) :
              find_unmatched_chars(Reordered(bal_text, pi), bal_pairs) = bal_issues

\* the interleaved text ([)] is found balanced for both pairs
C12_Witness ==
    /\ bal_pc = "returned"
    /\ bal_text = <<"(", "[", ")", "]">>
    /\ Len(bal_pairs) = 2
    /\ bal_issues = <<>>

-----------------------------------------------------------------------------
(* Properties of the live validation calls *)

LiveEnded == live_pc \in {"returned", "raised"}

AnalyzedBeforeLaunch ==
    \A k \in 1..Len(live_events) :
        live_events[k] = "launch" => \E j \in 1..(k - 1) : live_events[j] = "analyze"

\* the analyzer reports the selector of the call invalid
LiveSelectorInvalid ==
    LET report == validate_xpath_syntax(live_xpath, live_env.lxml)
    IN  ~report.raises /\ ~report.is_valid

\* C16 (as stated): validate_xpath and test_xpath_on_page run the analyzer
\* before any browser is launched, and return without launching one when the
\* analyzer reports the selector invalid.
C16_AnalyzerBeforeBrowser ==
    live_entry \in {"validate_xpath", "test_xpath_on_page"} =>
        /\ AnalyzedBeforeLaunch
        /\ (LiveEnded /\ LiveSelectorInvalid) => live_events = <<"analyze">>

\* C16 (amended): test_xpath_on_page, where Playwright is installed, runs
\* the analyzer before any browser is launched and returns success=false
\* with the syntax error, without a launch, when the analyzer reports the
\* selector invalid; validate_xpath never runs the analyzer.
C16_OnlyPageTestAnalyzesFirst ==
    /\ live_entry = "test_xpath_on_page" =>
        /\ AnalyzedBeforeLaunch
        /\ (LiveEnded /\ live_env.playwright /\ LiveSelectorInvalid) =>
              /\ live_pc = "returned"
              /\ live_events = <<"analyze">>
              /\ live_browser = "none"
              /\ ~live_ret[1].success
              /\ live_ret[1].error = "XPath syntax invalid"
    /\ live_entry = "validate_xpath" =>
        \A k \in 1..Len(live_events) : live_events[k] # "analyze"

\* test_xpath_on_page has turned down the unbalanced //a[
C16_Witness ==
    /\ live_pc = "returned"
    /\ live_entry = "test_xpath_on_page"
    /\ live_xpath = Str(<<"/", "/", "a", "[">>)
    /\ live_events = <<"analyze">>
    /\ live_browser = "none"
    /\ ~live_ret[1].success

-----------------------------------------------------------------------------
(* Properties of compare_versions *)

\* the generate call of the ver has ended in a result that run_version
\* hands on
Succeeded(ver) ==
    cmp_outcome[ver].kind = "dict" /\ cmp_outcome[ver].convertible

\* the response run_version owes to the ver, given how its generate
\* call ended
Expected(ver) ==
    IF Succeeded(ver)
    THEN GenerateResponse("xpath", ver, cmp_outcome[ver].validated,
                          cmp_outcome[ver].match_count, <<>>)
    ELSE ErrorResponse(ver)

\* C17: the three tasks are created together and all joined before the
\* response is built; a task whose generate call fails ends with the
\* degraded result (validated=false, match_count=0) and is never left
\* raised or unjoined, and the result of every version is the one its own
\* generate call owes it, whatever the others did and in whatever order the
\* tasks ran.
C17_FailuresStayInTheirTask ==
    /\ cmp_pc # "failed"
    /\ \A v \in VersionSet :
        /\ cmp_tasks[v] # "raised"
        /\ cmp_tasks[v] = "none" <=> cmp_pc = "start"
        /\ cmp_tasks[v] = "done" =>
              /\ cmp_result[v] = <<Expected(v)>>
              /\ ~Succeeded(v) =>
                    ~cmp_result[v][1].validated /\ cmp_result[v][1].match_count = 0
    /\ cmp_pc = "responded" =>
        /\ cmp_joined = Versions
        /\ \A v \in VersionSet : cmp_tasks[v] = "done" /\ cmp_ret[1][v] = Expected(v)

\* the generate call of v2 raised; v1 and v3 still come back validated
C17_Witness ==
    /\ cmp_pc = "responded"
    /\ cmp_outcome["v2"].kind = "raises"
    /\ cmp_ret[1]["v2"] = ErrorResponse("v2")
    /\ cmp_ret[1]["v1"].validated
    /\ cmp_ret[1]["v3"].validated

-----------------------------------------------------------------------------
(* Properties of the process log *)

\* the statuses the specification lists for a process log entry
ListedStatuses == {"started", "success", "failed", "warning", "skipped", "error"}

\* the statuses of the entries logged so far by the call that is running:
\* v1 and v2 append to process_log, v3_generate logs through log_step
LoggedStatuses ==
    {process_log[e].status : e \in 1..Len(process_log)}
    \cup {e.status : e \in v3_log}

-----------------------------------------------------------------------------
(* Properties of the complexity in the validation report *)

\* the selectors fix_xpath has to do with when it has returned, the input
\* and the result it validated, each with its report
AnalyzedSelectors ==
    {[selector |-> xp, report |-> validate_xpath_syntax(xp, lxml)] :
        xp \in {broken_xpath, fix_ret[1].fixed_xpath}}

\* C19 as stated: every report of validate_xpath_syntax carries a complexity
\* score, also for an empty or non-string input and for text that does not
\* look like a selector.
C19_EveryReportHasComplexity ==
    fix_pc = "returned" =>
        \A a \in AnalyzedSelectors :
            ~a.report.raises => a.report.complexity # <<>>

\* C19: the report of validate_xpath_syntax carries the complexity score of
\* the stripped input exactly when the input is a non-empty string that
\* looks like a selector, whatever the verdict and whatever lxml does; the
\* report of an empty or non-string input and of text that does not look
\* like a selector has no complexity.
C19_ComplexityOfLikelySelectors ==
    fix_pc = "returned" =>
        \A a \in AnalyzedSelectors :
            ~a.report.raises =>
                IF a.report.is_likely_xpath
                THEN a.report.complexity =
                         <<get_xpath_complexity_score(strip(a.selector.chars))>>
                ELSE /\ a.report.complexity = <<>>
                     /\ ~a.report.is_valid
                     /\ Len(a.report.syntax_errors) = 1

\* a selector with syntax errors that lxml would reject has been analyzed:
\* the report is invalid and carries the complexity
C19_Witness ==
    /\ fix_pc = "returned"
    /\ lxml = "rejects"
    /\ broken_xpath = Str(<<"/", "/", "a", "[", "@", "i", "d", "=">>)
    /\ ~InputReport.is_valid
    /\ InputReport.syntax_errors # <<>>
    /\ InputReport.complexity # <<>>

\* an input that does not look like a selector has been analyzed: the
\* report has no complexity
C19_EarlyReturnReached ==
    /\ fix_pc = "returned"
    /\ broken_xpath.is_str
    /\ broken_xpath.chars # <<>>
    /\ ~InputReport.raises
    /\ ~InputReport.is_likely_xpath
    /\ InputReport.complexity = <<>>

-----------------------------------------------------------------------------
(* Properties of the confidence of fix_xpath *)

\* the fraction c has the value num/den
ConfidenceIs(c, num, den) == c.num * den = num * c.den

\* the fraction c lies in [0,1]
InUnitInterval(c) == c.den > 0 /\ 0 <= c.num /\ c.num <= c.den

\* the average of the severity-table scores of the changes, multiplied by
\* 0.8 when there are more than 3 of them
IsTableAverage(c, changes) ==
    IF Len(changes) > 3
    THEN ConfidenceIs(c, 8 * SumScores(changes), 100 * Len(changes))
    ELSE ConfidenceIs(c, SumScores(changes), 10 * Len(changes))

\* C20 as stated: the confidence returned by fix_xpath lies in [0,1], is
\* exactly 1.0 whenever changes_made is empty, and otherwise is the average
\* of the severity-table scores of the changes, multiplied by 0.8 when more
\* than 3 changes were applied.
C20_OneWhenChangesMadeIsEmpty ==
    fix_pc = "returned" =>
        \A r \in {fix_ret[1]} :
            /\ InUnitInterval(r.confidence)
            /\ IF r.changes_made = <<>>
               THEN ConfidenceIs(r.confidence, 1, 1)
               ELSE IsTableAverage(r.confidence, r.changes_made)

\* C20: the confidence returned by fix_xpath lies in [0,1]; it is 0.0 for
\* an empty or non-string input, 1.0 when the returned selector equals the
\* input as it was handed in, 0.5 when they differ and changes_made is
\* empty (only surrounding blanks were removed), and otherwise the average of the severity-table scores of the
\* changes, multiplied by 0.8 when more than 3 changes were applied.
C20_ConfidenceByCase ==
    fix_pc = "returned" =>
        \A r \in {fix_ret[1]} :
            /\ InUnitInterval(r.confidence)
            /\ IF broken_xpath.chars = <<>> \/ ~broken_xpath.is_str
               THEN r.changes_made = <<>> /\ ConfidenceIs(r.confidence, 0, 1)
               ELSE IF r.fixed_xpath = r.original_xpath
               THEN ConfidenceIs(r.confidence, 1, 1)
               ELSE IF r.changes_made = <<>>
               THEN ConfidenceIs(r.confidence, 5, 10)
               ELSE IsTableAverage(r.confidence, r.changes_made)

\* more than 3 changes with different table scores have been applied and
\* the reduced average is returned
C20_Witness ==
    /\ fix_pc = "returned"
    /\ Len(fix_ret[1].changes_made) > 3
    /\ \E j, k \in 1..Len(fix_ret[1].changes_made) :
          /\ ChangeScore(fix_ret[1].changes_made[j]) = 8
          /\ ChangeScore(fix_ret[1].changes_made[k]) = 6
    /\ ConfidenceIs(fix_ret[1].confidence,
                    8 * SumScores(fix_ret[1].changes_made),
                    100 * Len(fix_ret[1].changes_made))

\* only the surrounding blanks of the input were removed
C20_StrippedOnlyReached ==
    /\ fix_pc = "returned"
    /\ fix_ret[1].changes_made = <<>>
    /\ fix_ret[1].fixed_xpath # fix_ret[1].original_xpath
    /\ ConfidenceIs(fix_ret[1].confidence, 5, 10)

-----------------------------------------------------------------------------
(* Properties of the pass pipeline of fix_xpath *)

\* the pass number k of fix_xpath, applied to the string xp
FixerPass(k, xp, instr) ==
    CASE k = 1 -> fix_truncation(xp, instr)
      [] k = 2 -> fix_balance_issues(xp)
      [] k = 3 -> fix_quote_issues(xp)
      [] k = 4 -> fix_attribute_issues(xp)
      [] k = 5 -> fix_function_issues(xp, instr)

\* the string and the change descriptions once the result f of a pass is
\* added to those of the passes before it
WithPass(before, f) ==
    IF f.raises
    THEN [xp |-> before.xp, changes |-> before.changes, raises |-> TRUE]
    ELSE [xp |-> f.result, changes |-> before.changes \o f.changes,
          raises |-> FALSE]

\* the pass number k applied to what the passes before it produced
NextPass(k, before, instr) ==
    IF before.raises THEN before
    ELSE CHOOSE r \in {WithPass(before, f) :
                          f \in {FixerPass(k, before.xp, instr)}} : TRUE

\* the string and the change descriptions after the first k passes, each
\* pass applied once to the string the passes before it produced
PassesUpTo(k) ==
    LET after[j \in 0..5] ==
            IF j = 0
            THEN [xp |-> strip(broken_xpath.chars), changes |-> <<>>,
                  raises |-> FALSE]
            ELSE CHOOSE r \in {NextPass(j, before, instruction) :
                                  before \in {after[j - 1]}} : TRUE
    IN  after[k]

\* the position of fix_xpath after k passes
PcAfterPasses ==
    <<"truncation", "balance", "quotes", "attributes", "functions", "validate">>

\* fix_xpath got past the check of its input
PassesRan == broken_xpath.is_str /\ broken_xpath.chars # <<>>

\* C23: fix_xpath runs the five passes once each in the order truncation,
\* balance, quote, attribute, function-completion; each pass receives the
\* string the passes before it produced, and changes_made is the
\* concatenation of the change descriptions of the passes in that order.
C23_PassesInOrder ==
    /\ \A k \in 0..5 :
          fix_pc = PcAfterPasses[k + 1] =>
              \A after \in {PassesUpTo(k)} :
                  /\ ~after.raises
                  /\ working_xpath = after.xp
                  /\ fixes_applied = after.changes
    /\ (fix_pc = "returned" /\ PassesRan) =>
          \A after \in {PassesUpTo(5)} :
              /\ ~after.raises
              /\ fix_ret[1].fixed_xpath = Str(after.xp)
              /\ fix_ret[1].changes_made = after.changes

\* a call in which the truncation pass, the balance pass and a later pass
\* each changed the string
C23_Witness ==
    /\ fix_pc = "returned"
    /\ PassesRan
    /\ PassesUpTo(1).changes # <<>>
    /\ Len(PassesUpTo(2).changes) > Len(PassesUpTo(1).changes)
    /\ Len(PassesUpTo(5).changes) > Len(PassesUpTo(2).changes)
    /\ fix_ret[1].changes_made = PassesUpTo(5).changes

-----------------------------------------------------------------------------
(* Properties of the termination of fix_xpath *)

\* C24: for every string input and every instruction, fix_xpath ends by
\* returning a repair result and never raises; a rule of a fixer pass that
\* matches the working string completes its substitution.
C24_FixXpathNeverRaises ==
    fix_pc # "raised"

-----------------------------------------------------------------------------
(* Properties of the verdict of validate_xpath_syntax *)

\* the selector failed one of the checks of the analyzer: the check of an
\* empty input, the pre-filter, a balance, function or attribute check, or
\* the compilation by lxml
FailedSomeCheck(selector, report) ==
    \/ selector.chars = <<>> \/ ~selector.is_str
    \/ ~report.is_likely_xpath
    \/ SyntaxErrors(strip(selector.chars)) # <<>>
    \/ lxml = "rejects"

\* C26: in every report of validate_xpath_syntax is_valid is true if and
\* only if syntax_errors is empty; is_valid is never true for an input that
\* failed the empty-input check, the pre-filter, a balance check, an
\* incomplete-function check, a malformed-attribute check or compilation.
C26_ValidIffNoSyntaxErrors ==
    fix_pc = "returned" =>
        \A a \in AnalyzedSelectors :
            ~a.report.raises =>
                /\ a.report.is_valid <=> a.report.syntax_errors = <<>>
                /\ FailedSomeCheck(a.selector, a.report) => ~a.report.is_valid

\* a selector without heuristic errors that lxml does not compile: the
\* report is invalid and its only error is the one of the compilation
C26_Witness ==
    /\ fix_pc = "returned"
    /\ lxml = "rejects"
    /\ PassesRan
    /\ ~InputReport.raises
    /\ SyntaxErrors(strip(broken_xpath.chars)) = <<>>
    /\ InputReport.is_likely_xpath
    /\ ~InputReport.is_valid
    /\ Len(InputReport.syntax_errors) = 1

-----------------------------------------------------------------------------
(* Properties of the quote pairs *)

\* xpath_validator.py 58-59: the pairs whose two characters are the same
QuotePairs == << <<"\"", "\"">>, <<"'", "'">> >>

\* the errors of a report that come from the balance check of a quote pair
QuoteBalanceErrors(report) ==
    {k \in 1..Len(report.syntax_errors) :
        /\ report.syntax_errors[k].kind \in {"Missing closing", "Extra"}
        /\ report.syntax_errors[k].detail \in {<<"\"">>, <<"'">>}}

\* C28: for the pairs of double quotes and of single quotes
\* find_unmatched_chars never reports an issue, so validate_xpath_syntax
\* never produces a balance error for the quotes, also when the selector
\* holds an odd number of them.
C28_QuotesNeverReported ==
    fix_pc = "returned" =>
        \A a \in AnalyzedSelectors :
            /\ find_unmatched_chars(a.selector.chars, QuotePairs) = <<>>
            /\ ~a.report.raises => QuoteBalanceErrors(a.report) = {}

\* a selector with a single double quote has been analyzed and is reported
\* valid
C28_Witness ==
    /\ fix_pc = "returned"
    /\ PassesRan
    /\ count(broken_xpath.chars, "\"") = 1
    /\ ~InputReport.raises
    /\ InputReport.is_valid
    /\ QuoteBalanceErrors(InputReport) = {}

-----------------------------------------------------------------------------
(* Properties of the mutation loop of test_robustness *)

\* how often the element x occurs in the sequence s
Occurrences(s, x) == Cardinality({k \in 1..Len(s) : s[k] = x})

\* how often the mutant of kind k has been validated
Validations(k) == Cardinality({t \in 1..Len(tested) : tested[t].html = k})

\* the run got past the baseline and has returned
RobCompleted == rob_pc = "returned" /\ ~BaselineFailure

\* every kind is in exactly one of passed and failed, once, and the score
\* is |passed| / 6 = |passed| / (|passed| + |failed|)
OnePlaceEachAndScore ==
    /\ \A k \in Range(Mutations) :
          Occurrences(rob_ret[1].passed, k) + Occurrences(rob_ret[1].failed, k) = 1
    /\ Len(rob_ret[1].passed) + Len(rob_ret[1].failed) = 6
    /\ rob_ret[1].score = [num |-> Len(rob_ret[1].passed), den |-> 6]

\* C25 as stated: after a run whose baseline matched every one of the six
\* kinds has been applied and validated exactly once, is in exactly one of
\* passed and failed, and the score is |passed| / 6.
C25_EachKindValidatedOnce ==
    RobCompleted =>
        /\ applied = Mutations
        /\ \A k \in Range(Mutations) : Validations(k) = 1
        /\ OnePlaceEachAndScore

\* C25: after a run whose baseline matched every one of the six kinds has
\* been applied exactly once and is in exactly one of passed and failed,
\* and the score is |passed| / 6; the mutant of a kind has been validated
\* once, or not at all, and then the kind is in failed with the error
\* "Mutation failed" (applying the mutation raised).
C25_EachKindAppliedOnce ==
    RobCompleted =>
        /\ applied = Mutations
        /\ \A k \in Range(Mutations) :
              /\ Validations(k) <= 1
              /\ Validations(k) = 0 =>
                    /\ Occurrences(rob_ret[1].failed, k) = 1
                    /\ results[k].error = <<"Mutation failed">>
        /\ OnePlaceEachAndScore

\* a run in which applying one mutation raised, the validation of another
\* mutant raised, and a third kind passed
C25_Witness ==
    /\ RobCompleted
    /\ Validations("whitespace") = 0
    /\ \E t \in 1..Len(tested) : tested[t].html = "classes" /\ tested[t].out.raises
    /\ "classes" \in Range(rob_ret[1].failed)
    /\ "siblings" \in Range(rob_ret[1].passed)
    /\ rob_ret[1].score.num = Len(rob_ret[1].passed)

-----------------------------------------------------------------------------
(* Properties of the insights of test_robustness *)

\* C29: in every run of test_robustness that reaches the analysis at least
\* one insight rule matches, so the insight "No specific vulnerabilities
\* identified" is never emitted, whatever kinds passed.
C29_FallbackInsightNeverEmitted ==
    RobCompleted =>
        /\ rob_ret[1].details.analysis.insights # <<>>
        /\ "No specific vulnerabilities identified"
              \notin Range(rob_ret[1].details.analysis.insights)
        /\ rob_ret[1].details.analysis
              = AnalyzeRobustnessResults(rob_ret[1].passed, rob_ret[1].failed)

\* all six kinds passed: the insights are the three positive ones
C29_Witness ==
    /\ RobCompleted
    /\ Len(rob_ret[1].passed) = 6
    /\ rob_ret[1].details.analysis.insights
        = <<"Handles whitespace changes well", "Robust against element reordering",
            "Survives structural DOM changes">>

-----------------------------------------------------------------------------
(* Properties of the termination of v3_generate of v3_enterprise *)

\* v3_generate has returned or raised
V3Ended == v3_pc \in {"returned", "raised"}

\* the stage of the call: the checks, the setup, the generation loop, the
\* validation loop, the requery, the robustness test, the end
V3Stage ==
    CASE v3_pc = "start" -> 0
      [] v3_pc = "setup" -> 1
      [] v3_pc = "generate" -> 2
      [] v3_pc = "after_generate" -> 3
      [] v3_pc = "validate" -> 4
      [] v3_pc = "after_validate" -> 5
      [] v3_pc = "robustness" -> 6
      [] OTHER -> 7

\* a measure that no call can raise more than 7 * 14 + 13 times
V3Measure == 14 * V3Stage + iteration + validation_attempts

\* the loops stay within their limits, and the call can go on until it has
\* ended
V3WithinLimits ==
    /\ iteration <= 10
    /\ validation_attempts <= 3
    /\ regenerations <= 2
    /\ V3Measure <= 7 * 14 + 13
    /\ ~V3Ended => ENABLED V3Next

\* every step brings the call closer to its end; a turn of the generation
\* loop counts as an iteration whatever happens in it, a turn of the
\* validation loop as a validation attempt
V3StepAdvances ==
    /\ V3Measure' > V3Measure
    /\ v3_pc = "generate" => iteration' = iteration + 1
    /\ v3_pc = "validate" => validation_attempts' = validation_attempts + 1

\* C30: provided every collaborator call returns or raises, v3_generate
\* terminates: the generation loop runs at most 10 iterations, an iteration
\* that raises or extracts no selector included, and the validation loop
\* makes at most 3 validation attempts and at most 2 regeneration requests
\* before the call returns.
C30_V3GenerateTerminates ==
    []V3WithinLimits /\ [][V3StepAdvances]_vars

\* a call that used all 10 iterations, all 3 validation attempts and both
\* regeneration requests, and has returned
C30_Witness ==
    /\ v3_pc = "returned"
    /\ iteration = 10
    /\ validation_attempts = 3
    /\ regenerations = 2
    /\ v3_ret # <<>>

\* ---------------------------------------------------------------------
\* C22: a page-navigation or load-state timeout never aborts a call of
\* v3_generate: a call that has started loading the page
\* (v3_enterprise.py 344-346) goes on to the generation with whatever
\* loaded, so that a call that has ended after starting the page load has
\* logged the successful load and has not returned the "Critical error"
\* record of the outer handler (v3_enterprise.py 741-754).
PageLoadStarted == LogStep("page_load", "running") \in v3_log

PageLoadPassed == LogStep("page_load", "success") \in v3_log

C22_PageLoadTimeoutNeverAborts ==
    (V3Ended /\ PageLoadStarted) =>
        /\ PageLoadPassed
        /\ \A rec \in Range(v3_ret) :
               LogStep("page_load", "success") \in rec.process_log

-----------------------------------------------------------------------------
(* Properties of v3_generate of v3_simplified *)

AdpEnded == adp_pc \in {"returned", "raised"}

\* the attempt found elements: its selector was produced and its quick
\* validation counted at least one element
Matched(t) == ~t.raised /\ ~t.query_raises /\ t.match_count > 0

\* the selectors the attempts of the call produced
CandidatesSeen ==
    {adp_trace[k].candidate : k \in {j \in 1..Len(adp_trace) : ~adp_trace[j].raised}}

\* the call has returned the dict of the final validation (746-768), not the
\* dict of the dependency check or of the critical error handler
FinalReturned ==
    /\ adp_pc = "returned"
    /\ LogStep("critical_error", "failed") \notin adp_log
    /\ LogStep("dependency_check", "failed") \notin adp_log

\* the loop ended without an attempt that found elements
Exhausted ==
    /\ FinalReturned
    /\ \A k \in 1..Len(adp_trace) : ~Matched(adp_trace[k])

\* at most 2 attempts, numbered 1 and 2, each with its quick validation
AtMostTwoAttempts ==
    /\ Len(adp_trace) <= adp_attempt
    /\ adp_attempt <= 2
    /\ \A k \in 1..Len(adp_trace) :
        /\ adp_trace[k].attempt = k
        /\ ~adp_trace[k].raised => adp_trace[k].candidate \in AdpSelectors

\* no attempt follows an attempt that found elements, and the selector of
\* that attempt is the one returned
StopsAtFirstMatch ==
    \A k \in 1..Len(adp_trace) :
        Matched(adp_trace[k]) =>
            /\ k = Len(adp_trace)
            /\ FinalReturned => adp_ret[1].xpath = adp_trace[k].candidate

\* v3_simplified.py 684: what generated_xpath holds when the loop is left
LastSelector ==
    LET last == adp_trace[Len(adp_trace)]
    IN  IF last.raised THEN BasicXpath ELSE last.candidate

\* the score of a selector on the page of the call, when the first matches
\* of the selectors in terms hold a content term
ScoreOnPage(x, terms) == score_xpath_quality(x, adp_page[x], x \in terms)

\* C21 as stated: v3_generate of v3_simplified makes at most 2 attempts,
\* validates after each, stops at the first attempt that matches, and when
\* no attempt matched the selector it returns is the candidate seen in the
\* call with the highest score_xpath_quality.
C21_BestScoringCandidateReturned ==
    /\ AtMostTwoAttempts
    /\ StopsAtFirstMatch
    /\ (Exhausted /\ CandidatesSeen # {}) =>
        /\ adp_ret[1].xpath \in CandidatesSeen
        /\ \A terms \in SUBSET AdpSelectors : \A c \in CandidatesSeen :
               ScoreOnPage(adp_ret[1].xpath, terms) >= ScoreOnPage(c, terms)

\* C21, amended: v3_generate of v3_simplified makes at most 2 attempts,
\* validates after each, stops at the first attempt that matches, and the
\* selector it returns from the final validation is the one the last attempt
\* left: the last attempt's candidate, or the basic selector
\* "//input | //button | //a" when the generation of attempt 2 raised; no
\* score is consulted.
C21_LastAttemptSelectorReturned ==
    /\ AtMostTwoAttempts
    /\ StopsAtFirstMatch
    /\ FinalReturned =>
        /\ Len(adp_trace) \in 1..2
        /\ Len(adp_trace) = 1 => Matched(adp_trace[1])
        /\ adp_ret[1].xpath = LastSelector

\* an exhausted call that returned the second candidate although the first
\* one has the higher score on the page
C21_Witness ==
    /\ Exhausted
    /\ Len(adp_trace) = 2
    /\ ~adp_trace[1].raised /\ ~adp_trace[2].raised
    /\ adp_ret[1].xpath = adp_trace[2].candidate
    /\ ScoreOnPage(adp_trace[1].candidate, {}) > ScoreOnPage(adp_ret[1].xpath, {})

\* a call that stopped at attempt 1 because its candidate matched
C21_FirstMatchReached ==
    /\ FinalReturned
    /\ Len(adp_trace) = 1
    /\ Matched(adp_trace[1])
    /\ adp_ret[1].validated

-----------------------------------------------------------------------------
(* The result records of validate_xpath and of the generate entry points *)

\* one call of validate_xpath, of v1 or v2 generate, of v3_generate of
\* v3_enterprise or of v3_generate of v3_simplified
InitRecords == InitLive \/ InitGen \/ InitV3 \/ InitAdaptive

NextRecords ==
    \/ LiveNext /\ UNCHANGED <<genVars, retryVars, robVars, v3Vars, fixVars,
                               balVars, cmpVars, adpVars>>
    \/ GenNext /\ UNCHANGED <<retryVars, robVars, v3Vars, fixVars, balVars,
                              liveVars, cmpVars, adpVars>>
    \/ V3Next /\ UNCHANGED <<genVars, retryVars, robVars, fixVars, balVars,
                             liveVars, cmpVars, adpVars>>
    \/ AdpNext /\ UNCHANGED <<genVars, retryVars, robVars, v3Vars, fixVars,
                              balVars, liveVars, cmpVars>>

SpecRecords == InitRecords /\ [][NextRecords]_vars

\* the dicts returned by validate_xpath
ValidateXpathReturned ==
    IF live_entry = "validate_xpath" /\ live_pc = "returned"
    THEN Range(live_ret) ELSE {}

\* the records returned by the generate entry points
GenerateReturned ==
    Range(gen_ret) \cup Range(v3_ret) \cup Range(adp_ret)

\* C27: in every result record returned by validate_xpath, by v1 generate,
\* by v2 generate and by v3_generate, validated (valid) is true only if
\* match_count >= 1, and a record with a non-null error or with
\* validated = false has match_count = 0.
C27_ValidatedOnlyWithMatches ==
    /\ \A r \in ValidateXpathReturned :
        /\ r.valid => r.match_count >= 1
        /\ (r.error # "None" \/ ~r.valid) => r.match_count = 0
    /\ \A r \in GenerateReturned :
        /\ r.validated => r.match_count >= 1
        /\ ~r.validated => r.match_count = 0

\* v3_generate returned a validated record with its matches
C27_Witness ==
    /\ v3_pc = "returned"
    /\ \E r \in Range(v3_ret) : r.validated /\ r.match_count >= 1

\* validate_xpath returned a dict with an error
C27_ErrorDictReached ==
    \E r \in ValidateXpathReturned : r.error # "None" /\ ~r.valid

\* validate_xpath returned a dict with matches
C27_ValidDictReached ==
    \E r \in ValidateXpathReturned : r.valid /\ r.match_count = MaxMatch

\* v2 generate returned its fallback
C27_FallbackReached ==
    \E r \in Range(gen_ret) : ~r.validated /\ version = "v2" /\ gen_pc = "done"

\* v1 generate returned a validated record
C27_V1ValidatedReached ==
    \E r \in Range(gen_ret) : r.validated /\ version = "v1"

\* v3_generate of v3_simplified returned the last selector without matches
C27_ExhaustedReached ==
    Exhausted /\ \E r \in Range(adp_ret) : ~r.validated

=============================================================================
